---- MODULE Spec2Model ----
(***************************************************************************)
(* Model of the touch-driven terminal UI of touch_ui.py.                   *)
(*                                                                         *)
(* Five specifications share the variables of this module:                 *)
(*   Spec       the Application: its main thread (Application.run), the    *)
(*              input thread (TouchHandler._touch_loop calling             *)
(*              Application._handle_touch), the screens' lifecycle hooks   *)
(*              and the collaborator processes they start;                 *)
(*   TouchSpec  the gesture classifier of TouchHandler._touch_loop, one    *)
(*              raw evdev event per step, with time kept in ticks.         *)
(*   CanvasSpec the character grid ASCIICanvas;                            *)
(*   WidgetSpec a Screen with a Button, a ScrollBar and a Slider;          *)
(*   WrapperSpec the event loop and teardown of a wrapper script.          *)
(* A specification leaves the variables of the other ones unchanged.       *)
(***************************************************************************)
EXTENDS Integers, Sequences, FiniteSets, TLC

(***************************************************************************)
(* Part 1: the Application (Spec)                                          *)
(***************************************************************************)

Threads == {"main", "touch"}

\* Application.screens (touch_ui.py:1499-1508)
Screens == {"main", "settings", "apps", "video_player", "airplay", "camera",
            "monitor", "testing"}

\* Python's None for current_screen and for process handles
None == "None"

\* the gestures TouchHandler._touch_loop passes to touch_callback
Gestures == {"press", "release", "tap", "double_tap",
             "swipe_up", "swipe_down", "swipe_left", "swipe_right"}

Swipes == {"swipe_up", "swipe_down", "swipe_left", "swipe_right"}

\* the callbacks one raw event makes, in order (touch_ui.py:94-148): nothing,
\* press (144), release (134 or 148), tap or a swipe (130, 132), and
\* double_tap followed by tap or a swipe (119 then 130/132)
EventGestures ==
    {<<>>, <<"press">>, <<"release">>, <<"tap">>}
        \cup {<<s>> : s \in Swipes}
        \cup {<<"double_tap", "tap">>}
        \cup {<<"double_tap", s>> : s \in Swipes}

\* bound: events the kernel holds unread for the input thread
MaxBuf == 1

VARIABLES
    pc,              \* pc[t]: the statement thread t executes next
    ret,             \* ret[t]: where the function t is in returns to
    arg,             \* arg[t]: screen_name of t's switch_screen call
    has_device,      \* TouchHandler.device is not None
    running,         \* Application.running
    current_screen,  \* Application.current_screen
    screen_dirty,    \* Application.screen_dirty
    th_running,      \* TouchHandler.running
    term,            \* terminal mode of stdin: "orig" or "cbreak"
    htop_process,    \* MonitorScreen.htop_process: None or "Popen"
    htop_state,      \* the htop process: "none", "running", "exited"
    collab,          \* collaborator of subprocess.run: "none", "running",
                     \* "exited" (status 0) or "failed" (another status)
    dev_buf,         \* raw events waiting in the device's read queue
    dev_late,        \* how many of them, the last ones, were produced while
                     \* a collaborator of subprocess.run was running (not
                     \* counted any more once a later event follows them)
    pending,         \* callbacks of the current event still to be made
    gesture,         \* event_type of the _handle_touch call in progress
    hook,            \* hook[t]: the last lifecycle hook thread t has called
    sw_out,          \* sw_out[t]: screen that was current when t called switch_screen
    exc,             \* the exception with which run's try block was left
    since_render,    \* current_time - last_render_time of run, in units of
                     \* min_render_interval, up to min_render_interval
    frame            \* what the draw call of this loop iteration put on the
                     \* canvas: "none", "widgets", "overlay" or
                     \* "instructions" (of the monitor screen); "changed"
                     \* once the input thread has changed what the screen
                     \* shows after that draw call, "stale" once the
                     \* _handle_touch call that did so has set screen_dirty

appvars == <<pc, ret, arg, has_device, running, current_screen, screen_dirty,
             th_running, term, htop_process, htop_state, collab, dev_buf,
             dev_late, pending, gesture, hook, sw_out, exc, since_render,
             frame>>

(* Variables of the gesture classifier (TouchSpec, Part 2).  Time is counted
   in ticks of 0.1 s.  time.time() itself is not kept: the two timestamps the
   loop stores are kept as the time elapsed since they were taken, which is
   all the loop ever computes from them (111, 116). *)
VARIABLES
    touch_x,         \* x of _touch_loop: Unset, or <<v>> for the last ABS_X value v
    touch_y,         \* y of _touch_loop
    touching,        \* touching of _touch_loop
    swipe_start,     \* swipe_start of _touch_loop: Unset or <<x, y>>, time in swipe_age
    swipe_age,       \* time.time() - swipe_start[2], up to MaxAge
    tap_age,         \* time.time() - self.last_tap_time, up to MaxGap
    tap_count,       \* TouchHandler.tap_count
    dev_trk,         \* the device's slot holds a tracking id (a contact is down)
    dev_btn,         \* the device's BTN_TOUCH is 1
    ev,              \* the raw event the loop handled in the last step
    emitted,         \* the touch_callback calls of the last step: <<gesture, x, y>>
    contact,         \* what the last step classified: Unset or <<[dx, dy, dt, gap, count]>>
    up_callbacks,    \* callbacks other than press since the last contact-down event
    pos_updates      \* a position event has come since the contact began

touchvars == <<touch_x, touch_y, touching, swipe_start, swipe_age, tap_age,
               tap_count, dev_trk, dev_btn, ev, emitted, contact, up_callbacks,
               pos_updates>>

(* Variables of the character grid (CanvasSpec, Part 3). *)
VARIABLES
    buffer,          \* ASCIICanvas.buffer: a list of rows, each a list of cells
    old_buffer,      \* ASCIICanvas.old_buffer
    dirty,           \* ASCIICanvas.dirty
    cv_op,           \* the canvas method the last step called
    cv_was_dirty,    \* dirty when that call began
    cv_out,          \* the strings that call passed to sys.stdout.write
    cv_raised,       \* that call ended with an exception
    cv_wrapped,      \* that call stored through a negative list index
    cv_draws         \* the number of draw_text and draw_box calls made so far

canvasvars == <<buffer, old_buffer, dirty, cv_op, cv_was_dirty, cv_out,
                cv_raised, cv_wrapped, cv_draws>>

(* Variables of a screen and its widgets (WidgetSpec, Part 4). *)
VARIABLES
    widgets,         \* Screen.widgets in draw order, each widget with its fields
    term_size,       \* <<cols, rows>>: what 'stty size' reports now
    w_op,            \* the call the last step made
    w_tests,         \* its contains_point calls, in order: [w, hit]
    w_handled,       \* its widget.handle_touch calls, in order: [w, consumed]
    w_callbacks      \* its widget callbacks, in order: <<w, argument>>

widgetvars == <<widgets, term_size, w_op, w_tests, w_handled, w_callbacks>>

(* Variables of a wrapper script (WrapperSpec, Part 5): touch_mpv_wrapper4.py,
   touch_ffplay_wrapper.py or touch_uxplay_wrapper.py, from the start of its
   event loop.  Time is counted in ticks of 0.1 s, and each timestamp is kept
   as the time elapsed since it was taken. *)
VARIABLES
    wr,              \* the script: "mpv", "ffplay" or "uxplay"
    wr_pc,           \* "loop", "finally", "wait", "kill" or "done"
    proc,            \* the collaborator: "running", "hung" (running, ignores
                     \* SIGTERM and does not end by itself) or "exited"
    wr_touching,     \* touching
    wr_start,        \* <<start_x, start_y>>, each Unset or <<v>>
    wr_last_x,       \* last_x: Unset or <<v>>
    wr_last_y,       \* last_y: Unset or <<v>>
    wr_start_age,    \* time.time() - start_time, up to MaxAge
    wr_tap_age,      \* time.time() - last_tap_time, up to MaxTapAge
    wr_taps,         \* consecutive_taps (ffplay), tap_count (uxplay)
    wr_vol_fresh,    \* time.time() - last_volume_time < 0.1 (mpv)
    wr_ev,           \* what the last step handled: <<event, outcome>>
    wr_sent,         \* the mpv_send call of the last step: <<>> or <<cmd, ok>>
    wr_row           \* taps completed in a row, each at most 1.0 s after the
                     \* one before, with no other completed contact between

wrappervars == <<wr, wr_pc, proc, wr_touching, wr_start, wr_last_x, wr_last_y,
                 wr_start_age, wr_tap_age, wr_taps, wr_vol_fresh, wr_ev,
                 wr_sent, wr_row>>

vars == <<appvars, touchvars, canvasvars, widgetvars, wrappervars>>

\* what the steps of one part leave unchanged: the variables of the others
nonapp == <<touchvars, canvasvars, widgetvars, wrappervars>>

nontouch == <<appvars, canvasvars, widgetvars, wrappervars>>

noncanvas == <<appvars, touchvars, widgetvars, wrappervars>>

nonwidget == <<appvars, touchvars, canvasvars, wrappervars>>

nonwrapper == <<appvars, touchvars, canvasvars, widgetvars>>

\* Python's None for the values kept as tuples
Unset == <<>>

\* bound: swipe_age stops counting here; every age above 2.0 s is this value
MaxAge == 21

\* bound: tap_age stops counting here; every age above 0.5 s is this value
MaxGap == 6

\* TouchHandler.__init__ (36-39) and the locals of _touch_loop (82-84).
\* last_tap_time = 0 lies the whole epoch before the first time.time().
TouchInit ==
    /\ touch_x = Unset
    /\ touch_y = Unset
    /\ touching = FALSE
    /\ swipe_start = Unset
    /\ swipe_age = 0
    /\ tap_age = MaxGap
    /\ tap_count = 0
    /\ dev_trk = FALSE
    /\ dev_btn = FALSE
    /\ ev = "none"
    /\ emitted = <<>>
    /\ contact = Unset
    /\ up_callbacks = 0
    /\ pos_updates = FALSE

\* bound: the width of the grid in cells (the terminal's columns)
width == 3

\* bound: the height of the grid in cells (the terminal's rows)
height == 2

\* bound: the number of draw_text and draw_box calls in a run
MaxDraws == 1

\* a row of blank cells (170)
BlankRow == [c \in 1..width |-> " "]

\* ASCIICanvas.__init__ (157-172)
CanvasInit ==
    /\ buffer = [r \in 1..height |-> BlankRow]
    /\ old_buffer = [r \in 1..height |-> BlankRow]
    /\ dirty = TRUE
    /\ cv_op = "none"
    /\ cv_was_dirty = TRUE
    /\ cv_out = <<>>
    /\ cv_raised = FALSE
    /\ cv_wrapped = FALSE
    /\ cv_draws = 0

\* the terminal sizes <<cols, rows>> that 'stty size' reports (420-426)
TermSizes == {<<80, 24>>, <<40, 12>>}

\* Widget.__init__ (392-399) with the fields of the subclasses: Button
\* (431-436), ScrollBar (501-507) and Slider (604-610)
Widget(kind, x, y, w, h) ==
    [kind |-> kind, x |-> x, y |-> y, width |-> w, height |-> h,
     visible |-> TRUE, pressed |-> FALSE, dragging |-> FALSE,
     total_items |-> 0, visible_items |-> 0, scroll_position |-> 0,
     min_val |-> 0, max_val |-> 0, value |-> 0]

\* Button(38, 11, text of two characters): width = len(text) + 4, height 3
NewButton == Widget("Button", 38, 11, 6, 3)

\* ScrollBar(42, 10, 4, total_items, visible_items) (501-507)
NewScrollBar(total, visible) ==
    [Widget("ScrollBar", 42, 10, 3, 4) EXCEPT
        !.total_items = IF total > 1 THEN total ELSE 1,
        !.visible_items = IF visible < (IF total > 1 THEN total ELSE 1)
                          THEN visible ELSE (IF total > 1 THEN total ELSE 1)]

\* Slider(40, 12, 7, min_val, max_val, value) (604-610), a = <<min_val,
\* max_val, value>>
NewSlider(a) == [Widget("Slider", 40, 12, 7, 3) EXCEPT
                    !.min_val = a[1], !.max_val = a[2], !.value = a[3]]

\* the arguments <<min_val, max_val, value>> a Slider is built with: those
\* of the brightness slider (767) and a range that starts below zero
SliderArgs == {<<0, 100, 50>>, <<-5, 6, 0>>}

\* the arguments <<total_items, visible_items>> a ScrollBar is built with
ScrollBarArgs == {<<0, 10>>, <<25, 10>>}

\* a screen with three overlapping widgets, drawn in this order: a Button,
\* a ScrollBar built with the arguments a, and a Slider built with the
\* arguments b; visible is a public field of each, and the widget numbered
\* hidden (if any) has it false
Scene(a, b, hidden) ==
    [i \in 1..3 |->
        [(CASE i = 1 -> NewButton
            [] i = 2 -> NewScrollBar(a[1], a[2])
            [] OTHER -> NewSlider(b))
         EXCEPT !.visible = (i # hidden)]]

\* a screen whose widgets are all visible, on an 80 x 24 terminal
WidgetInit ==
    /\ widgets = Scene(<<25, 10>>, <<0, 100, 50>>, 0)
    /\ term_size = <<80, 24>>
    /\ w_op = <<"none">>
    /\ w_tests = <<>>
    /\ w_handled = <<>>
    /\ w_callbacks = <<>>

\* bound: wr_tap_age stops counting here; every age above 1.0 s is this value
MaxTapAge == 11

\* a wrapper at the start of its event loop (mpv 85-89, ffplay 93-99, uxplay
\* 84-89): last_tap_time = 0 and last_volume_time = 0 lie far in the past
WrapperInit ==
    /\ wr = "ffplay"
    /\ wr_pc = "loop"
    /\ proc = "running"
    /\ wr_touching = FALSE
    /\ wr_start = <<Unset, Unset>>
    /\ wr_last_x = Unset
    /\ wr_last_y = Unset
    /\ wr_start_age = 0
    /\ wr_tap_age = MaxTapAge
    /\ wr_taps = 0
    /\ wr_vol_fresh = FALSE
    /\ wr_ev = <<"none", "none">>
    /\ wr_sent = <<>>
    /\ wr_row = 0

NoHook == <<"none", None>>

\* self.min_render_interval = 0.033 (1496), the unit of since_render
min_render_interval == 1

AppInit ==
    /\ pc = [t \in Threads |-> IF t = "main" THEN "run" ELSE "unstarted"]
    /\ ret = [t \in Threads |-> "none"]
    /\ arg = [t \in Threads |-> None]
    /\ has_device \in BOOLEAN
    /\ running = FALSE
    /\ current_screen = None
    /\ screen_dirty = TRUE
    /\ th_running = FALSE
    /\ term = "orig"
    /\ htop_process = None
    /\ htop_state = "none"
    /\ collab = "none"
    /\ dev_buf = 0
    /\ dev_late = 0
    /\ pending = <<>>
    /\ gesture = "none"
    /\ hook = [t \in Threads |-> NoHook]
    /\ sw_out = [t \in Threads |-> None]
    /\ exc = "none"
    /\ since_render = min_render_interval
    /\ frame = "none"

Init == AppInit /\ TouchInit /\ CanvasInit /\ WidgetInit /\ WrapperInit

\* thread t moves to statement l
Goto(t, l) == pc' = [pc EXCEPT ![t] = l]

\* thread t calls a function whose first statement is l and which returns to r
Call(t, l, r) ==
    /\ pc' = [pc EXCEPT ![t] = l]
    /\ ret' = [ret EXCEPT ![t] = r]

\* the frame of this loop iteration after a step of the input thread that
\* changes what the current screen shows (changed) or does not
FrameAfter(changed) ==
    IF changed /\ frame \in {"widgets", "overlay"} THEN "changed" ELSE frame

(* ---- lifecycle hooks of the screens ---- *)

\* Screen.exit of screen s.  MonitorScreen.exit (1399-1404) sends terminate to
\* htop and forgets the handle without waiting.  AirPlayScreen.exit (1185-1190)
\* and CameraScreen.exit (1326-1331) test hasattr(process, 'poll'), which the
\* CompletedProcess that subprocess.run returned does not have: they do nothing.
\* Every other screen inherits Screen.exit (665-667): pass.
screen_exit(s) ==
    /\ htop_process' = IF s = "monitor" THEN None ELSE htop_process
    /\ UNCHANGED htop_state

\* Screen.enter of screen s.  MonitorScreen.enter (1387-1397) starts htop, or
\* prints a hint when the binary is missing; every other screen: pass (661-663).
screen_enter(s) ==
    IF s = "monitor"
    THEN \E found \in BOOLEAN :
            IF found
            THEN htop_process' = "Popen" /\ htop_state' = "running"
            ELSE UNCHANGED <<htop_process, htop_state>>
    ELSE UNCHANGED <<htop_process, htop_state>>

(* ---- Application.switch_screen (1512-1519), run by thread t ---- *)

\* switch_screen without the call of the outgoing screen's exit()
switch_screen_noexit(t) ==
    /\ pc[t] = "switch_screen"
    /\ sw_out' = [sw_out EXCEPT ![t] = current_screen]
    /\ Goto(t, "switch_screen_set")
    /\ UNCHANGED <<ret, arg, has_device, running, current_screen, screen_dirty,
                   th_running, term, htop_process, htop_state, collab, dev_buf,
                   pending, gesture, hook, exc,
                   since_render, frame, dev_late,
                   nonapp>>

\* 1514: if self.current_screen:
switch_screen(t) ==
    /\ pc[t] = "switch_screen"
    /\ sw_out' = [sw_out EXCEPT ![t] = current_screen]
    /\ Goto(t, IF current_screen # None THEN "switch_screen_exit"
                                        ELSE "switch_screen_set")
    /\ UNCHANGED <<ret, arg, has_device, running, current_screen, screen_dirty,
                   th_running, term, htop_process, htop_state, collab, dev_buf,
                   pending, gesture, hook, exc,
                   since_render, frame, dev_late,
                   nonapp>>

\* 1515: self.screens[self.current_screen].exit()
switch_screen_exit(t) ==
    /\ pc[t] = "switch_screen_exit"
    /\ screen_exit(current_screen)
    /\ hook' = [hook EXCEPT ![t] = <<"exit", current_screen>>]
    /\ Goto(t, "switch_screen_set")
    /\ UNCHANGED <<ret, arg, has_device, running, current_screen, screen_dirty,
                   th_running, term, collab, dev_buf, pending, gesture, sw_out,
                   exc,
                   since_render, frame, dev_late,
                   nonapp>>

\* a variant of the assignment that stores 'apps' when 'settings' was asked for
switch_screen_set_other(t) ==
    /\ pc[t] = "switch_screen_set"
    /\ current_screen' = IF arg[t] = "settings" THEN "apps" ELSE arg[t]
    /\ frame' = FrameAfter(TRUE)
    /\ Goto(t, "switch_screen_enter")
    /\ UNCHANGED <<ret, arg, has_device, running, screen_dirty, th_running,
                   term, htop_process, htop_state, collab, dev_buf, pending,
                   gesture, hook, sw_out, exc,
                   since_render, dev_late,
                   nonapp>>

\* 1517: self.current_screen = screen_name
switch_screen_set(t) ==
    /\ pc[t] = "switch_screen_set"
    /\ current_screen' = arg[t]
    /\ frame' = FrameAfter(TRUE)
    /\ Goto(t, "switch_screen_enter")
    /\ UNCHANGED <<ret, arg, has_device, running, screen_dirty, th_running,
                   term, htop_process, htop_state, collab, dev_buf, pending,
                   gesture, hook, sw_out, exc,
                   since_render, dev_late,
                   nonapp>>

\* 1518: self.screens[screen_name].enter()
switch_screen_enter(t) ==
    /\ pc[t] = "switch_screen_enter"
    /\ screen_enter(arg[t])
    /\ hook' = [hook EXCEPT ![t] = <<"enter", arg[t]>>]
    /\ Goto(t, "switch_screen_dirty")
    /\ UNCHANGED <<ret, arg, has_device, running, current_screen, screen_dirty,
                   th_running, term, collab, dev_buf, pending, gesture, sw_out,
                   exc,
                   since_render, frame, dev_late,
                   nonapp>>

\* 1519: self.screen_dirty = True, and return
switch_screen_dirty(t) ==
    /\ pc[t] = "switch_screen_dirty"
    /\ screen_dirty' = TRUE
    /\ Goto(t, ret[t])
    /\ UNCHANGED <<ret, arg, has_device, running, current_screen, th_running,
                   term, htop_process, htop_state, collab, dev_buf, pending,
                   gesture, hook, sw_out, exc,
                   since_render, frame, dev_late,
                   nonapp>>

(* ---- Application.quit (1606-1620) and TouchHandler.stop (74-78) ---- *)

\* 1608: self.running = False
quit(t) ==
    /\ pc[t] = "quit"
    /\ running' = FALSE
    /\ Goto(t, "quit_exit")
    /\ UNCHANGED <<ret, arg, has_device, current_screen, screen_dirty,
                   th_running, term, htop_process, htop_state, collab, dev_buf,
                   pending, gesture, hook, sw_out, exc,
                   since_render, frame, dev_late,
                   nonapp>>

\* 1611-1612: if self.current_screen: self.screens[self.current_screen].exit()
quit_exit(t) ==
    /\ pc[t] = "quit_exit"
    /\ IF current_screen # None
       THEN /\ screen_exit(current_screen)
            /\ hook' = [hook EXCEPT ![t] = <<"exit", current_screen>>]
       ELSE UNCHANGED <<htop_process, htop_state, hook>>
    /\ Goto(t, "stop")
    /\ UNCHANGED <<ret, arg, has_device, running, current_screen, screen_dirty,
                   th_running, term, collab, dev_buf, pending, gesture, sw_out,
                   exc,
                   since_render, frame, dev_late,
                   nonapp>>

\* 1615, 76: self.touch_handler.stop() sets TouchHandler.running = False
stop(t) ==
    /\ pc[t] = "stop"
    /\ th_running' = FALSE
    /\ Goto(t, "stop_join")
    /\ UNCHANGED <<ret, arg, has_device, running, current_screen, screen_dirty,
                   term, htop_process, htop_state, collab, dev_buf, pending,
                   gesture, hook, sw_out, exc,
                   since_render, frame, dev_late,
                   nonapp>>

\* 77-78: if self.touch_thread: self.touch_thread.join()
\* No thread was started: nothing to join.  Called on the main thread: join
\* returns once the input thread has ended.  Called on the input thread itself
\* (the Exit button's callback): join raises RuntimeError, nothing catches it
\* and the input thread ends there.
stop_join(t) ==
    /\ pc[t] = "stop_join"
    /\ IF t = "touch"
       THEN /\ Goto(t, "dead")
            /\ pending' = <<>>
       ELSE /\ pc["touch"] \in {"unstarted", "dead"}
            /\ Goto(t, "quit_finish")
            /\ UNCHANGED pending
    /\ UNCHANGED <<ret, arg, has_device, running, current_screen, screen_dirty,
                   th_running, term, htop_process, htop_state, collab, dev_buf,
                   gesture, hook, sw_out, exc,
                   since_render, frame, dev_late,
                   nonapp>>

\* 1618-1620 on the main thread: cleanup_console(), print, sys.exit(0).
\* SystemExit raised inside run's try block runs the finally clause; raised by
\* the quit() of the finally clause it ends the process, and with it the
\* daemon input thread.
quit_finish(t) ==
    /\ pc[t] = "quit_finish"
    /\ t = "main"
    /\ IF ret[t] = "try"
       THEN Goto(t, "finally") /\ exc' = "SystemExit"
       ELSE Goto(t, "exited") /\ UNCHANGED exc
    /\ UNCHANGED <<ret, arg, has_device, running, current_screen, screen_dirty,
                   th_running, term, htop_process, htop_state, collab, dev_buf,
                   pending, gesture, hook, sw_out,
                   since_render, frame, dev_late,
                   nonapp>>

(* ---- Application.run (1557-1604) on the main thread ---- *)

\* 1559-1565: self.running = True, the loading screen, old_settings = tcgetattr
run ==
    /\ pc["main"] = "run"
    /\ running' = TRUE
    /\ Goto("main", "run_setcbreak")
    /\ UNCHANGED <<ret, arg, has_device, current_screen, screen_dirty,
                   th_running, term, htop_process, htop_state, collab, dev_buf,
                   pending, gesture, hook, sw_out, exc,
                   since_render, frame, dev_late,
                   nonapp>>

\* 1568: tty.setcbreak(sys.stdin.fileno()), the first statement of the try block
run_setcbreak ==
    /\ pc["main"] = "run_setcbreak"
    /\ term' = "cbreak"
    /\ Goto("main", "run_start")
    /\ UNCHANGED <<ret, arg, has_device, running, current_screen, screen_dirty,
                   th_running, htop_process, htop_state, collab, dev_buf,
                   pending, gesture, hook, sw_out, exc,
                   since_render, frame, dev_late,
                   nonapp>>

\* 1571, 62-72: self.touch_handler.start(self._handle_touch): without a device
\* it returns; with one it sets TouchHandler.running and starts the thread.
\* 1574: self.switch_screen('main') is called next.
start ==
    /\ pc["main"] = "run_start"
    /\ th_running' = (has_device \/ th_running)
    /\ pc' = [pc EXCEPT !["main"] = "switch_screen",
                        !["touch"] = IF has_device THEN "read" ELSE @]
    /\ ret' = [ret EXCEPT !["main"] = "run_initial_render"]
    /\ arg' = [arg EXCEPT !["main"] = "main"]
    /\ UNCHANGED <<has_device, running, current_screen, screen_dirty, term,
                   htop_process, htop_state, collab, dev_buf, pending, gesture,
                   hook, sw_out, exc,
                   since_render, frame, dev_late,
                   nonapp>>

\* 1577-1579: the initial render, skipped on the monitor screen
run_initial_render ==
    /\ pc["main"] = "run_initial_render"
    /\ Goto("main", "loop")
    /\ arg' = [arg EXCEPT !["main"] = None]
    /\ sw_out' = [sw_out EXCEPT !["main"] = None]
    /\ hook' = [hook EXCEPT !["main"] = NoHook]
    /\ UNCHANGED <<ret, has_device, running, current_screen, screen_dirty,
                   th_running, term, htop_process, htop_state, collab, dev_buf,
                   pending, gesture, exc,
                   since_render, frame, dev_late,
                   nonapp>>

\* 1581: while self.running
loop ==
    /\ pc["main"] = "loop"
    /\ Goto("main", IF running THEN "loop_check" ELSE "finally")
    /\ UNCHANGED <<ret, arg, has_device, running, current_screen, screen_dirty,
                   th_running, term, htop_process, htop_state, collab, dev_buf,
                   pending, gesture, hook, sw_out, exc,
                   since_render, frame, dev_late,
                   nonapp>>

\* the render test of the loop without screen_dirty
loop_check_nodirty ==
    /\ pc["main"] = "loop_check"
    /\ \E now \in {since_render, min_render_interval} :
          /\ since_render' = now
          /\ Goto("main", IF now >= min_render_interval /\ current_screen # "monitor"
                           THEN "loop_draw" ELSE "loop_keyboard")
    /\ UNCHANGED <<ret, arg, has_device, running, current_screen, screen_dirty,
                   th_running, term, htop_process, htop_state, collab, dev_buf,
                   pending, gesture, hook, sw_out, exc, frame,
                   dev_late,
                   nonapp>>

\* 1582-1586: render only if min_render_interval has elapsed, the screen is
\* not the monitor and screen_dirty is set
loop_check ==
    /\ pc["main"] = "loop_check"
    /\ \E now \in {since_render, min_render_interval} :
          /\ since_render' = now
          /\ Goto("main", IF /\ now >= min_render_interval
                              /\ current_screen # "monitor"
                              /\ screen_dirty
                           THEN "loop_draw" ELSE "loop_keyboard")
    /\ UNCHANGED <<ret, arg, has_device, running, current_screen, screen_dirty,
                   th_running, term, htop_process, htop_state, collab, dev_buf,
                   pending, gesture, hook, sw_out, exc, frame,
                   dev_late,
                   nonapp>>

\* the values of uxplay_process and ffplay_process: None (1109, 1240) until
\* subprocess.run has returned once, then the CompletedProcess it returned
\* (1160, 1299); exit() would store None again (1189, 1330)
Handles == {None, "CompletedProcess"}

\* the test the AirPlay and Camera screens make of their process handle h
\* (1187, 1195, 1204, 1328, 1336, 1345): h and hasattr(h, 'poll') and
\* h.poll() is None.  Only a Popen object has poll.
StillRunning(h) == h # None /\ h = "Popen" /\ collab = "running"

\* screen s shows its instruction overlay and keeps gestures from its
\* widgets: its handle, whichever of its values it has, passes the test
Overlay(s) ==
    /\ s \in {"airplay", "camera"}
    /\ \E h \in Handles : StillRunning(h)

\* 1588: self.screens[self.current_screen].draw(self.canvas): the overlay of
\* AirPlayScreen.draw (1202-1214) and CameraScreen.draw (1343-1355) when the
\* handle is still running, else Screen.draw (677-689) with the widgets.
\* MonitorScreen.draw (1413-1421), reached when the screen was switched
\* after the test of line 1586, draws its instructions unless htop runs.
loop_draw ==
    /\ pc["main"] = "loop_draw"
    /\ frame' = IF current_screen = "monitor"
                THEN (IF htop_process = None \/ htop_state # "running"
                      THEN "instructions" ELSE "none")
                ELSE IF Overlay(current_screen) THEN "overlay" ELSE "widgets"
    /\ Goto("main", "loop_render")
    /\ UNCHANGED <<ret, arg, has_device, running, current_screen, screen_dirty,
                   th_running, term, htop_process, htop_state, collab, dev_buf,
                   pending, gesture, hook, sw_out, exc,
                   since_render, dev_late,
                   nonapp>>

\* 1589: self.canvas.render()
loop_render ==
    /\ pc["main"] = "loop_render"
    /\ Goto("main", "loop_clear")
    /\ UNCHANGED <<ret, arg, has_device, running, current_screen, screen_dirty,
                   th_running, term, htop_process, htop_state, collab, dev_buf,
                   pending, gesture, hook, sw_out, exc,
                   since_render, frame, dev_late,
                   nonapp>>

\* 1590-1591: self.last_render_time = current_time; self.screen_dirty = False
loop_clear ==
    /\ pc["main"] = "loop_clear"
    /\ since_render' = 0
    /\ screen_dirty' = FALSE
    /\ frame' = "none"
    /\ Goto("main", "loop_keyboard")
    /\ UNCHANGED <<ret, arg, has_device, running, current_screen, th_running,
                   term, htop_process, htop_state, collab, dev_buf, pending,
                   gesture, hook, sw_out, exc,
                   dev_late,
                   nonapp>>

\* 1594, 1527-1542: _handle_keyboard reads at most one key without blocking;
\* 'q' (or a Ctrl+C byte) calls quit(), any other key is dropped.
\* 1597: time.sleep(0.01), then the loop test again.
handle_keyboard ==
    /\ pc["main"] = "loop_keyboard"
    /\ \E key \in {"none", "q", "other"} :
          IF key = "q"
          THEN Call("main", "quit", "try")
          ELSE Goto("main", "loop") /\ UNCHANGED ret
    /\ UNCHANGED <<exc, arg, has_device, running, current_screen, screen_dirty,
                   th_running, term, htop_process, htop_state, collab, dev_buf,
                   pending, gesture, hook, sw_out,
                   since_render, frame, dev_late,
                   nonapp>>

\* the statements of the try block (1566-1597), calls made from it included
InTry ==
    \/ pc["main"] \in {"run_start", "run_initial_render", "loop", "loop_check",
                       "loop_draw", "loop_render", "loop_clear", "loop_keyboard"}
    \/ /\ pc["main"] \in {"switch_screen", "switch_screen_exit",
                          "switch_screen_set", "switch_screen_enter",
                          "switch_screen_dirty"}
    \/ /\ pc["main"] \in {"quit", "quit_exit", "stop", "stop_join", "quit_finish"}
       /\ ret["main"] = "try"

\* 1599-1600: SIGINT raises KeyboardInterrupt in the main thread anywhere in
\* the try block; except KeyboardInterrupt: pass, then the finally clause
KeyboardInterrupt ==
    /\ InTry
    /\ Goto("main", "finally")
    /\ exc' = "KeyboardInterrupt"
    /\ UNCHANGED <<ret, arg, has_device, running, current_screen, screen_dirty,
                   th_running, term, htop_process, htop_state, collab, dev_buf,
                   pending, gesture, hook, sw_out,
                   since_render, frame, dev_late,
                   nonapp>>

\* an exception raised by draw or render inside the loop (1588-1589) is not
\* caught by run: the finally clause runs with the exception pending
loop_exception ==
    /\ pc["main"] \in {"loop_draw", "loop_render"}
    /\ Goto("main", "finally")
    /\ exc' = "Exception"
    /\ UNCHANGED <<ret, arg, has_device, running, current_screen, screen_dirty,
                   th_running, term, htop_process, htop_state, collab, dev_buf,
                   pending, gesture, hook, sw_out,
                   since_render, frame, dev_late,
                   nonapp>>

\* SIGINT while the quit() of the finally clause runs (1604): nothing catches
\* KeyboardInterrupt there, the process ends and the daemon input thread with it
finally_interrupt ==
    /\ pc["main"] \in {"quit", "quit_exit", "stop", "stop_join", "quit_finish"}
    /\ ret["main"] = "finally"
    /\ pc' = [pc EXCEPT !["main"] = "exited",
                        !["touch"] = IF @ = "unstarted" THEN @ ELSE "dead"]
    /\ UNCHANGED <<ret, arg, has_device, running, current_screen, screen_dirty,
                   th_running, term, htop_process, htop_state, collab, dev_buf,
                   pending, gesture, hook, sw_out, exc,
                   since_render, frame, dev_late,
                   nonapp>>

\* run's finally clause without the tcsetattr call
run_finally_norestore ==
    /\ pc["main"] = "finally"
    /\ Call("main", "quit", "finally")
    /\ UNCHANGED <<arg, has_device, running, current_screen, screen_dirty,
                   th_running, term, htop_process, htop_state, collab, dev_buf,
                   pending, gesture, hook, sw_out, exc,
                   since_render, frame, dev_late,
                   nonapp>>

\* 1601-1604: finally: termios.tcsetattr(..., old_settings); self.quit()
run_finally ==
    /\ pc["main"] = "finally"
    /\ term' = "orig"
    /\ Call("main", "quit", "finally")
    /\ UNCHANGED <<arg, has_device, running, current_screen, screen_dirty,
                   th_running, htop_process, htop_state, collab, dev_buf,
                   pending, gesture, hook, sw_out, exc,
                   since_render, frame, dev_late,
                   nonapp>>

(* ---- the input thread: TouchHandler._touch_loop and the dispatch ---- *)

\* The widgets with a callback that each screen puts in self.widgets, as
\* <<screen, action of the callback, its argument>>: MainMenuScreen (709-734),
\* SettingsScreen (774), AppsScreen (1018-1085), VideoPlayerScreen (835, 894-902),
\* AirPlayScreen (1129-1140), CameraScreen (1260-1274), TestingScreen (1440).
\* MonitorScreen has no widgets.
Buttons ==
    {<<"main", "switch", s>> : s \in {"settings", "apps", "monitor", "testing"}}
        \cup {<<"main", "quit", None>>}
        \cup {<<"settings", "switch", "main">>}
        \cup {<<"apps", "switch", s>> : s \in {"video_player", "airplay", "camera", "main"}}
        \cup {<<"video_player", "switch", "apps">>, <<"video_player", "launch", "mpv">>}
        \cup {<<"airplay", "launch", "uxplay">>, <<"airplay", "switch", "apps">>}
        \cup {<<"camera", "launch", "ffplay">>, <<"camera", "switch", "apps">>}
        \cup {<<"testing", "switch", "main">>}

\* what a touch point can hit on screen s: one of its buttons, its Slider or
\* ScrollBar (767, 839), or no widget
Targets(s) ==
    {b \in Buttons : b[1] = s}
        \cup (IF s = "settings" THEN {<<s, "slider", None>>} ELSE {})
        \cup (IF s = "video_player" THEN {<<s, "scrollbar", None>>} ELSE {})
        \cup {<<s, "nothing", None>>}

\* 90-92: the next raw event is read; if not self.running: break.  Otherwise
\* the event is classified and its first callback, if any, is made.
touch_loop ==
    /\ pc["touch"] = "read"
    /\ dev_buf > 0
    /\ dev_buf' = dev_buf - 1
    /\ dev_late' = IF dev_late = dev_buf THEN dev_late - 1 ELSE dev_late
    /\ IF ~th_running
       THEN /\ Goto("touch", "dead")
            /\ UNCHANGED <<pending, gesture>>
       ELSE \E gs \in EventGestures :
               IF gs = <<>>
               THEN UNCHANGED <<pc, pending, gesture>>
               ELSE /\ Goto("touch", "handle_touch")
                    /\ gesture' = Head(gs)
                    /\ pending' = Tail(gs)
    /\ UNCHANGED <<ret, arg, has_device, running, current_screen, screen_dirty,
                   th_running, term, htop_process, htop_state, collab, hook,
                   sw_out, exc,
                   since_render, frame, nonapp>>

\* the end of one touch_callback call: the next callback of the same event,
\* or back to read_loop
NextCallback ==
    IF pending = <<>>
    THEN /\ Goto("touch", "read")
         /\ gesture' = "none"
         /\ UNCHANGED pending
    ELSE /\ Goto("touch", "handle_touch")
         /\ gesture' = Head(pending)
         /\ pending' = Tail(pending)

\* 1523: if self.current_screen:
handle_touch ==
    /\ pc["touch"] = "handle_touch"
    /\ IF current_screen # None
       THEN Goto("touch", "screen_handle_touch") /\ UNCHANGED <<pending, gesture>>
       ELSE NextCallback
    /\ UNCHANGED <<ret, arg, has_device, running, current_screen, screen_dirty,
                   th_running, term, htop_process, htop_state, collab, dev_buf,
                   hook, sw_out, exc,
                   since_render, frame, dev_late,
                   nonapp>>

\* the callback of button b is invoked on the input thread: switch_screen
\* (736-746, 788, 947, 1087-1100, 1181, 1322, 1447), Application.quit (733),
\* or play_video / launch_airplay / launch_camera (900, 1134, 1265)
Invoke(b) ==
    /\ pc' = [pc EXCEPT !["touch"] = IF b[2] = "switch" THEN "switch_screen" ELSE b[2]]
    /\ ret' = [ret EXCEPT !["touch"] = "mark_dirty"]
    /\ arg' = [arg EXCEPT !["touch"] = b[3]]

\* Button / VideoButton / MainMenuButton.handle_touch (449-459, 486-496,
\* 588-599) of button b for the gesture in progress.  The pressed flags of the
\* buttons are not part of this specification's state: was_pressed, the flag
\* that release and tap read, is either value.
button_handle_touch(b) ==
    IF gesture \in {"release", "tap"}
    THEN \E was_pressed \in BOOLEAN :
            IF was_pressed
            THEN Invoke(b)
            ELSE Goto("touch", "mark_dirty") /\ UNCHANGED <<ret, arg>>
    ELSE /\ Goto("touch", "mark_dirty")
         /\ UNCHANGED <<ret, arg>>

\* 1524: self.screens[self.current_screen].handle_touch(event_type, x, y).
\* MonitorScreen.handle_touch (1406-1411) switches to main on double_tap.
\* VideoPlayerScreen.handle_touch (951-968) scrolls on swipe_up / swipe_down
\* when the list can move, and sets screen_dirty.  Otherwise Screen.handle_touch
\* (669-675) gives the gesture to the widget under the touch point; the
\* ScrollBar's callback on_scroll (904-908) sets screen_dirty on press and tap.
\* AirPlayScreen.handle_touch (1192-1199) and CameraScreen.handle_touch
\* (1333-1340) return False while their handle is still running.
\* event_type is not read again once the widget has handled the gesture.
screen_handle_touch ==
    /\ pc["touch"] = "screen_handle_touch"
    /\ IF current_screen = "monitor"
       THEN /\ IF gesture = "double_tap"
               THEN /\ Call("touch", "switch_screen", "mark_dirty")
                    /\ arg' = [arg EXCEPT !["touch"] = "main"]
               ELSE /\ Goto("touch", "mark_dirty")
                    /\ UNCHANGED <<ret, arg>>
            /\ UNCHANGED <<screen_dirty, frame>>
       ELSE IF Overlay(current_screen)
       THEN /\ Goto("touch", "mark_dirty")
            /\ UNCHANGED <<ret, arg, screen_dirty, frame>>
       ELSE \/ /\ current_screen = "video_player"
               /\ gesture \in {"swipe_up", "swipe_down"}
               /\ screen_dirty' = TRUE
               /\ frame' = FrameAfter(TRUE)
               /\ Goto("touch", "mark_dirty")
               /\ UNCHANGED <<ret, arg>>
            \/ \E w \in Targets(current_screen) :
                  IF w \in Buttons
                  THEN button_handle_touch(w) /\ UNCHANGED <<screen_dirty, frame>>
                  ELSE /\ screen_dirty' = IF w[2] = "scrollbar" /\ gesture \in {"press", "tap"}
                                          THEN TRUE ELSE screen_dirty
                       /\ Goto("touch", "mark_dirty")
                       /\ UNCHANGED <<ret, arg, frame>>
    /\ gesture' = "none"
    /\ UNCHANGED <<has_device, running, current_screen, th_running, term,
                   htop_process, htop_state, collab, dev_buf, pending, hook,
                   sw_out, exc,
                   since_render, dev_late,
                   nonapp>>

\* play_video (910-927), launch_airplay (1142-1160), launch_camera (1276-1299):
\* the wrapper script (and the video device) must exist, else show_error;
\* subprocess.run(cmd) then starts the collaborator, or raises
launch ==
    /\ pc["touch"] = "launch"
    /\ \E ok \in BOOLEAN :
          IF ok
          THEN collab' = "running" /\ Goto("touch", "subprocess_run")
          ELSE UNCHANGED collab /\ Goto("touch", "show_error")
    /\ UNCHANGED <<ret, arg, has_device, running, current_screen, screen_dirty,
                   th_running, term, htop_process, htop_state, dev_buf, pending,
                   gesture, hook, sw_out, exc,
                   since_render, frame, dev_late,
                   nonapp>>

\* 927, 1160, 1299: subprocess.run returns a CompletedProcess when the
\* collaborator has exited, whatever its exit status (no check=True), and the
\* screen keeps it as its handle.
\* 930-931: os.system('clear'); self.app.screen_dirty = True
subprocess_run ==
    /\ pc["touch"] = "subprocess_run"
    /\ collab \in {"exited", "failed"}
    /\ collab' = "none"
    /\ screen_dirty' = TRUE
    /\ Goto("touch", ret["touch"])
    /\ UNCHANGED <<ret, arg, has_device, running, current_screen, th_running,
                   term, htop_process, htop_state, dev_buf, pending, gesture,
                   hook, sw_out, exc,
                   since_render, frame, dev_late,
                   nonapp>>

\* show_error (938-945, 1171-1179, 1310-1320): the message, time.sleep,
\* self.app.screen_dirty = True
show_error ==
    /\ pc["touch"] = "show_error"
    /\ screen_dirty' = TRUE
    /\ Goto("touch", ret["touch"])
    /\ UNCHANGED <<ret, arg, has_device, running, current_screen, th_running,
                   term, htop_process, htop_state, collab, dev_buf, pending,
                   gesture, hook, sw_out, exc,
                   since_render, frame, dev_late,
                   nonapp>>

\* 1525: self.screen_dirty = True, the end of _handle_touch
mark_dirty ==
    /\ pc["touch"] = "mark_dirty"
    /\ screen_dirty' = TRUE
    /\ frame' = IF frame = "changed" THEN "stale" ELSE frame
    /\ NextCallback
    /\ arg' = [arg EXCEPT !["touch"] = None]
    /\ sw_out' = [sw_out EXCEPT !["touch"] = None]
    /\ hook' = [hook EXCEPT !["touch"] = NoHook]
    /\ UNCHANGED <<ret, has_device, running, current_screen, th_running, term,
                   htop_process, htop_state, collab, dev_buf, exc,
                   since_render, dev_late,
                   nonapp>>

(* ---- the environment ---- *)

\* the touch controller reports a raw event
touch_event ==
    /\ has_device
    /\ pc["main"] # "exited"
    /\ dev_buf < MaxBuf
    /\ dev_buf' = dev_buf + 1
    /\ dev_late' = IF collab = "running" THEN dev_late + 1 ELSE 0
    /\ UNCHANGED <<pc, ret, arg, has_device, running, current_screen,
                   screen_dirty, th_running, term, htop_process, htop_state,
                   collab, pending, gesture, hook, sw_out, exc,
                   since_render, frame, nonapp>>

\* the collaborator started by subprocess.run exits, with status 0 or, as
\* when it fails right after its start, with another status
collab_exit ==
    /\ collab = "running"
    /\ collab' \in {"exited", "failed"}
    /\ UNCHANGED <<pc, ret, arg, has_device, running, current_screen,
                   screen_dirty, th_running, term, htop_process, htop_state,
                   dev_buf, pending, gesture, hook, sw_out, exc,
                   since_render, frame, dev_late,
                   nonapp>>

\* the htop process ends, by itself or after terminate()
htop_exit ==
    /\ htop_state = "running"
    /\ htop_state' = "exited"
    /\ UNCHANGED <<pc, ret, arg, has_device, running, current_screen,
                   screen_dirty, th_running, term, htop_process, collab,
                   dev_buf, pending, gesture, hook, sw_out, exc,
                   since_render, frame, dev_late,
                   nonapp>>

\* a step of the main thread or of the input thread
ThreadStep ==
    \/ run \/ run_setcbreak \/ start \/ run_initial_render
    \/ loop \/ loop_check \/ loop_draw \/ loop_render \/ loop_clear
    \/ handle_keyboard \/ run_finally
    \/ touch_loop \/ handle_touch \/ screen_handle_touch
    \/ launch \/ subprocess_run \/ show_error \/ mark_dirty
    \/ \E t \in Threads :
          \/ switch_screen(t) \/ switch_screen_exit(t) \/ switch_screen_set(t)
          \/ switch_screen_enter(t) \/ switch_screen_dirty(t)
          \/ quit(t) \/ quit_exit(t) \/ stop(t) \/ stop_join(t) \/ quit_finish(t)

\* a step of the environment: the user, the signals, the other processes
EnvStep ==
    \/ touch_event \/ collab_exit \/ htop_exit
    \/ KeyboardInterrupt \/ loop_exception \/ finally_interrupt

Next == ThreadStep \/ EnvStep

Spec == Init /\ [][Next]_vars

(***************************************************************************)
(* Part 2: the gesture classifier of TouchHandler._touch_loop (TouchSpec)  *)
(*                                                                         *)
(* One step handles one event of device.read_loop().  The device sends     *)
(* position, tracking-id and BTN_TOUCH events in any order; the kernel     *)
(* only reports changes, so a tracking id is released only after it was    *)
(* set and BTN_TOUCH alternates between 1 and 0.  EV_SYN events only set   *)
(* current_touch, which nothing reads, and are left out.                   *)
(***************************************************************************)

\* the event values of ABS_X / ABS_MT_POSITION_X the device sends
XVals == {100, 180, 181}

\* the event values of ABS_Y / ABS_MT_POSITION_Y the device sends
YVals == {100, 149, 200}

\* max_x of _touch_loop (87)
max_x == 800

\* max_y of _touch_loop (88)
max_y == 480

\* "dt < 0.2" (115), in ticks of 0.1 s
QuickTime == 2

\* "current_time - self.last_tap_time < 0.5" (116), in ticks of 0.1 s
DoubleTapWindow == 5

\* Python's abs (125, 126)
abs(n) == IF n < 0 THEN 0 - n ELSE n

Min(a, b) == IF a < b THEN a ELSE b

\* "if dt < 0.2:  # Quick tap" (115)
IsQuick(dt) == dt < QuickTime

\* InWindow without the comparison with the window
InWindow_always(gap) == TRUE

\* "if current_time - self.last_tap_time < 0.5" (116)
InWindow(gap) == gap < DoubleTapWindow

\* "self.tap_count += 1; if self.tap_count >= 2" (117-118)
IsDoubleTap(gap, count) == InWindow(gap) /\ count + 1 >= 2

\* tap_count after a quick contact (117-122)
NextTapCount(gap, count) ==
    IF InWindow(gap)
    THEN IF count + 1 >= 2 THEN 0 ELSE count + 1
    ELSE 1

\* "abs(dx) > max_x * 0.1 or abs(dy) > max_y * 0.1" (125)
IsSwipe(dx, dy) == abs(dx) * 10 > max_x \/ abs(dy) * 10 > max_y

\* the direction of a swipe (126-129)
SwipeGesture(dx, dy) ==
    IF abs(dx) > abs(dy)
    THEN IF dx > 0 THEN "swipe_right" ELSE "swipe_left"
    ELSE IF dy > 0 THEN "swipe_down" ELSE "swipe_up"

\* the gestures passed to touch_callback, in order, when a tracking id is
\* released dt after swipe_start, gap after last_tap_time (113-134)
Classify(dx, dy, dt, gap, count) ==
    IF IsQuick(dt)
    THEN (IF IsDoubleTap(gap, count) THEN <<"double_tap">> ELSE <<>>)
         \o <<IF IsSwipe(dx, dy) THEN SwipeGesture(dx, dy) ELSE "tap">>
    ELSE <<"release">>

\* x is not None and y is not None (102, 105, 141, 147)
HasPosition == touch_x # Unset /\ touch_y # Unset

\* the Python value of x or y
Val(o) == IF o = Unset THEN None ELSE o[1]

\* the device reports a contact: a tracking id is set or BTN_TOUCH is 1
InContact == dev_trk \/ dev_btn

\* the calls touch_callback(g, x, y) for the gestures gs
Callbacks(gs) == [i \in 1..Len(gs) |-> <<gs[i], Val(touch_x), Val(touch_y)>>]

\* what the step just taken handled and called
Log(e, gs, c) ==
    /\ ev' = e
    /\ emitted' = Callbacks(gs)
    /\ contact' = c

\* ABS_MT_POSITION_X or ABS_X (94-96)
abs_x ==
    \E v \in XVals :
        /\ touch_x' = <<v>>
        /\ pos_updates' = TRUE
        /\ Log("ABS_X", <<>>, Unset)
        /\ UNCHANGED <<touch_y, touching, swipe_start, swipe_age, tap_age,
                       tap_count, dev_trk, dev_btn, up_callbacks, nontouch>>

\* ABS_MT_POSITION_Y or ABS_Y (97-98)
abs_y ==
    \E v \in YVals :
        /\ touch_y' = <<v>>
        /\ pos_updates' = TRUE
        /\ Log("ABS_Y", <<>>, Unset)
        /\ UNCHANGED <<touch_x, touching, swipe_start, swipe_age, tap_age,
                       tap_count, dev_trk, dev_btn, up_callbacks, nontouch>>

\* ABS_MT_TRACKING_ID with event.value >= 0 (99-103)
tracking_id_down ==
    /\ ~dev_trk
    /\ dev_trk' = TRUE
    /\ touching' = TRUE
    /\ IF HasPosition
       THEN swipe_start' = <<Val(touch_x), Val(touch_y)>> /\ swipe_age' = 0
       ELSE UNCHANGED <<swipe_start, swipe_age>>
    /\ up_callbacks' = 0
    /\ pos_updates' = (pos_updates /\ InContact)
    /\ Log("TRACKING_ID_DOWN", <<>>, Unset)
    /\ UNCHANGED <<touch_x, touch_y, tap_age, tap_count, dev_btn, nontouch>>

\* ABS_MT_TRACKING_ID with a negative event.value (104-135)
tracking_id_up ==
    /\ dev_trk
    /\ dev_trk' = FALSE
    /\ touching' = FALSE
    /\ IF HasPosition /\ swipe_start # Unset
       THEN LET dx == touch_x[1] - swipe_start[1]
                dy == touch_y[1] - swipe_start[2]
                dt == swipe_age
                gs == Classify(dx, dy, dt, tap_age, tap_count)
            IN  /\ tap_count' = IF IsQuick(dt)
                                THEN NextTapCount(tap_age, tap_count)
                                ELSE tap_count
                /\ tap_age' = IF IsQuick(dt) THEN 0 ELSE tap_age
                /\ up_callbacks' = up_callbacks + Len(gs)
                /\ Log("TRACKING_ID_UP", gs,
                       <<[dx |-> dx, dy |-> dy, dt |-> dt,
                          gap |-> tap_age, count |-> tap_count]>>)
       ELSE /\ Log("TRACKING_ID_UP", <<>>, Unset)
            /\ UNCHANGED <<tap_count, tap_age, up_callbacks>>
    /\ IF HasPosition
       THEN swipe_start' = Unset /\ swipe_age' = 0
       ELSE UNCHANGED <<swipe_start, swipe_age>>
    /\ UNCHANGED <<touch_x, touch_y, dev_btn, pos_updates, nontouch>>

\* BTN_TOUCH with event.value == 1 (139-144)
btn_touch_down ==
    /\ ~dev_btn
    /\ dev_btn' = TRUE
    /\ touching' = TRUE
    /\ IF HasPosition
       THEN /\ swipe_start' = <<Val(touch_x), Val(touch_y)>>
            /\ swipe_age' = 0
            /\ Log("BTN_TOUCH_DOWN", <<"press">>, Unset)
       ELSE /\ Log("BTN_TOUCH_DOWN", <<>>, Unset)
            /\ UNCHANGED <<swipe_start, swipe_age>>
    /\ up_callbacks' = 0
    /\ pos_updates' = (pos_updates /\ InContact)
    /\ UNCHANGED <<touch_x, touch_y, tap_age, tap_count, dev_trk, nontouch>>

\* BTN_TOUCH with event.value == 0, without the test of x and y
btn_touch_up_noguard ==
    /\ dev_btn
    /\ dev_btn' = FALSE
    /\ touching' = FALSE
    /\ Log("BTN_TOUCH_UP", <<"release">>, Unset)
    /\ up_callbacks' = up_callbacks + 1
    /\ UNCHANGED <<touch_x, touch_y, swipe_start, swipe_age, tap_age,
                   tap_count, dev_trk, pos_updates, nontouch>>

\* BTN_TOUCH with event.value == 0 (145-148)
btn_touch_up ==
    /\ dev_btn
    /\ dev_btn' = FALSE
    /\ touching' = FALSE
    /\ IF HasPosition
       THEN /\ Log("BTN_TOUCH_UP", <<"release">>, Unset)
            /\ up_callbacks' = up_callbacks + 1
       ELSE /\ Log("BTN_TOUCH_UP", <<>>, Unset)
            /\ UNCHANGED up_callbacks
    /\ UNCHANGED <<touch_x, touch_y, swipe_start, swipe_age, tap_age,
                   tap_count, dev_trk, pos_updates, nontouch>>

\* 0.1 s passes while read_loop waits for the next event: the next
\* time.time() (103, 111, 114, 141) is one tick later
tick ==
    /\ swipe_age' = IF swipe_start = Unset THEN 0 ELSE Min(swipe_age + 1, MaxAge)
    /\ tap_age' = Min(tap_age + 1, MaxGap)
    /\ Log("tick", <<>>, Unset)
    /\ UNCHANGED <<touch_x, touch_y, touching, swipe_start, tap_count,
                   dev_trk, dev_btn, up_callbacks, pos_updates, nontouch>>

TouchNext ==
    \/ abs_x \/ abs_y
    \/ tracking_id_down \/ tracking_id_up
    \/ btn_touch_down \/ btn_touch_up
    \/ tick

\* the classifier runs on a handler that found its device (46-60, 62-72)
TouchStart == Init /\ has_device = TRUE

TouchSpec == TouchStart /\ [][TouchNext]_vars

(***************************************************************************)
(* Part 3: the character grid ASCIICanvas (CanvasSpec)                     *)
(*                                                                         *)
(* One step is one call of clear, draw_text, draw_box or render.  A store  *)
(* buffer[row][col] = ch follows Python's list indexing: an index i with   *)
(* 0 <= i < len selects element i, one with -len <= i < 0 selects element  *)
(* len + i, any other raises IndexError.  Rows and columns are counted     *)
(* from 0 as in the source; the TLA+ sequences are indexed from 1.         *)
(***************************************************************************)

\* the index into a TLA+ sequence of length n that Python's list index i
\* selects, 0 when list[i] raises IndexError
PyIndex(n, i) ==
    IF 0 <= i /\ i < n THEN i + 1
    ELSE IF 0 - n <= i /\ i < 0 THEN n + i + 1
    ELSE 0

\* the state of a call: the grid so far, whether a store has raised, whether
\* a store has gone through a negative index
CallState(b) == [buf |-> b, raised |-> FALSE, wrapped |-> FALSE]

\* self.buffer[row][col] = ch in call state st; nothing follows an exception
Store(st, row, col, ch) ==
    LET r == PyIndex(Len(st.buf), row)
        c == IF r = 0 THEN 0 ELSE PyIndex(Len(st.buf[r]), col)
    IN  IF st.raised THEN st
        ELSE IF r = 0 \/ c = 0 THEN [st EXCEPT !.raised = TRUE]
        ELSE [buf |-> [st.buf EXCEPT ![r][c] = ch],
              raised |-> FALSE,
              wrapped |-> st.wrapped \/ row < 0 \/ col < 0]

\* the stores <<row, col, ch>> of ws made in order, from call state st
RECURSIVE StoreAll(_, _)
StoreAll(st, ws) ==
    IF ws = <<>> THEN st
    ELSE StoreAll(Store(st, ws[1][1], ws[1][2], ws[1][3]), Tail(ws))

\* Python's range(a, b) as a sequence
Range(a, b) == [k \in 1..(IF b > a THEN b - a ELSE 0) |-> a + k - 1]

\* Python's max and min (245-246)
Max(a, b) == IF a > b THEN a ELSE b

\* the sequences of ss one after the other
RECURSIVE Flatten(_)
Flatten(ss) == IF ss = <<>> THEN <<>> ELSE ss[1] \o Flatten(Tail(ss))

\* the loop of draw_text without "if px < 0: continue"
TextStores_nowrapguard(x, y, text, clip) ==
    LET n == IF clip /\ x + Len(text) > width
             THEN Max(0, width - x)
             ELSE Len(text)
    IN  SelectSeq([i \in 1..n |-> <<y, x + i - 1, text[i]>>],
                  LAMBDA w : w[2] < width)

\* the stores of draw_text's loop (216-225): characters left of the grid are
\* skipped; at the first one right of it the loop ends (clip) or skips it
TextStores(x, y, text, clip) ==
    LET n == IF clip /\ x + Len(text) > width
             THEN Max(0, width - x)
             ELSE Len(text)
    IN  SelectSeq([i \in 1..n |-> <<y, x + i - 1, text[i]>>],
                  LAMBDA w : 0 <= w[2] /\ w[2] < width)

\* the cell at column col of the grid, stored with ch, if the column is one
\* of the grid ("if 0 <= x < self.width", 251, 254, 256, 262, 264, 269, 272, 274)
Cell(row, col, ch) ==
    IF 0 <= col /\ col < width THEN <<<<row, col, ch>>>> ELSE <<>>

\* a horizontal line of draw_box at row (250-257, 268-275)
BoxLine(x, row, w, left, mid, right) ==
    IF 0 <= row /\ row < height
    THEN Cell(row, x, left)
         \o Flatten([i \in 1..(w - 2) |-> Cell(row, x + i, mid)])
         \o Cell(row, x + w - 1, right)
    ELSE <<>>

\* the characters of a box style (231-238); the names stand for the
\* box-drawing characters of 'single'
BoxChars(style) ==
    IF style = "single"
    THEN <<"TL", "H", "TR", "V", "BL", "BR">>
    ELSE <<"+", "-", "+", "|", "+", "+">>

\* the stores of draw_box in program order (240-275)
BoxStores(x, y, w, h, style, filled) ==
    LET chars == BoxChars(style)
        rows == Range(Max(0, y), Min(y + h, height))
        cols == Range(Max(0, x), Min(x + w, width))
        fill == IF filled
                THEN Flatten([r \in 1..Len(rows) |->
                         [c \in 1..Len(cols) |-> <<rows[r], cols[c], "fill">>]])
                ELSE <<>>
        sides == Flatten([i \in 1..(h - 2) |->
                     IF 0 <= y + i /\ y + i < height
                     THEN Cell(y + i, x, chars[4])
                          \o Cell(y + i, x + w - 1, chars[4])
                     ELSE <<>>])
    IN  fill
        \o BoxLine(x, y, w, chars[1], chars[2], chars[3])
        \o sides
        \o BoxLine(x, y + h - 1, w, chars[5], chars[2], chars[6])

\* the arguments the calls are made with: left of, on and right of the grid
ColArgs == {-1, 0, 1, width}

RowArgs == {-1, 0, 1, height}

WidthArgs == {-1, 0, 2, width + 1}

HeightArgs == {-1, 0, 1, height + 1}

Styles == {"single", "ascii"}

Texts == {<<"a">>, <<"a", "b", "c", "d", "e">>}

\* what the call just made did
CanvasLog(op, out, st) ==
    /\ cv_op' = op
    /\ cv_was_dirty' = dirty
    /\ cv_out' = out
    /\ cv_raised' = st.raised
    /\ cv_wrapped' = st.wrapped

\* the end of a drawing call that made its stores from call state st:
\* "self.dirty = True" is reached unless a store raised
Drawn(op, st) ==
    /\ buffer' = st.buf
    /\ dirty' = IF st.raised THEN dirty ELSE TRUE
    /\ CanvasLog(op, <<>>, st)
    /\ UNCHANGED <<old_buffer, noncanvas>>

\* ASCIICanvas.clear (206-210)
clear ==
    /\ UNCHANGED cv_draws
    /\ Drawn("clear",
             StoreAll(CallState(buffer),
                      Flatten([r \in 1..height |->
                          [c \in 1..width |-> <<r - 1, c - 1, " ">>]])))

\* ASCIICanvas.draw_text (212-227)
draw_text ==
    /\ cv_draws < MaxDraws
    /\ cv_draws' = cv_draws + 1
    /\ \E x \in ColArgs, y \in RowArgs, text \in Texts, clip \in BOOLEAN :
          IF y < 0 \/ y >= height
          THEN /\ CanvasLog("draw_text", <<>>, CallState(buffer))
               /\ UNCHANGED <<buffer, old_buffer, dirty, noncanvas>>
          ELSE Drawn("draw_text",
                     StoreAll(CallState(buffer), TextStores(x, y, text, clip)))

\* ASCIICanvas.draw_box (229-274)
draw_box ==
    /\ cv_draws < MaxDraws
    /\ cv_draws' = cv_draws + 1
    /\ \E x \in ColArgs, y \in RowArgs, w \in WidthArgs, h \in HeightArgs,
          style \in Styles, filled \in BOOLEAN :
          Drawn("draw_box",
                StoreAll(CallState(buffer), BoxStores(x, y, w, h, style, filled)))

\* the string render passes to sys.stdout.write (283-297): the cursor home,
\* then for every row its number, the line clear and the row's cells
Frame == [r \in 1..height |-> <<r, buffer[r]>>]

\* render that leaves dirty as it was
render_keepdirty ==
    /\ IF ~dirty
       THEN CanvasLog("render", <<>>, CallState(buffer))
       ELSE CanvasLog("render", <<Frame>>, CallState(buffer))
    /\ old_buffer' = IF dirty THEN buffer ELSE old_buffer
    /\ UNCHANGED <<buffer, dirty, cv_draws, noncanvas>>

\* ASCIICanvas.render (276-305)
render ==
    /\ IF ~dirty
       THEN /\ CanvasLog("render", <<>>, CallState(buffer))
            /\ UNCHANGED <<buffer, old_buffer, dirty>>
       ELSE /\ CanvasLog("render", <<Frame>>, CallState(buffer))
            /\ old_buffer' = [r \in 1..height |-> buffer[r]]
            /\ dirty' = FALSE
            /\ UNCHANGED buffer
    /\ UNCHANGED <<cv_draws, noncanvas>>

CanvasNext == clear \/ draw_text \/ draw_box \/ render

\* the canvas is built by Application.__init__ (1488), device or not
CanvasStart == Init /\ has_device = TRUE

CanvasSpec == CanvasStart /\ [][CanvasNext]_vars

(***************************************************************************)
(* Part 4.  Widgets and Screen.handle_touch (touch_ui.py 389-675).  A      *)
(* screen holds a Button, a ScrollBar and a Slider that overlap; gestures  *)
(* arrive at sensor coordinates (0..800, 0..480), and every hit test and   *)
(* every position update asks the terminal for its size again.  Widget     *)
(* heights and widths are chosen so that the divisions of _update_position *)
(* and _update_value are exact in binary floating point.                   *)
(***************************************************************************)

\* the gestures offered to the screen
WidgetGestures == {"press", "release", "tap", "swipe_up"}

\* sensor coordinates of the gestures
TouchXs == {400, 430, 790}

TouchYs == {220, 240, 470}

\* arguments of ScrollBar.set_position
Positions == {-1, 0, 18}

\* the numbers of items a list is reloaded with
ItemCounts == {3, 9}

\* Python's int() of the quotient n / d, d > 0: truncation toward zero
Trunc(n, d) == IF n >= 0 THEN n \div d ELSE -((-n) \div d)

\* Widget._get_terminal_size (420-426): 'stty size', asked at every call
get_terminal_size == term_size

\* Widget.contains_point with a fixed 80 x 24 terminal
contains_point_fixed(w, tx, ty) ==
    LET term_x == Trunc(tx * 80, max_x)
        term_y == Trunc(ty * 24, max_y)
    IN  /\ w.x <= term_x /\ term_x < w.x + w.width
        /\ w.y <= term_y /\ term_y < w.y + w.height

\* Widget.contains_point (409-418)
contains_point(w, tx, ty) ==
    LET term_cols == get_terminal_size[1]
        term_rows == get_terminal_size[2]
        term_x == Trunc(tx * term_cols, max_x)
        term_y == Trunc(ty * term_rows, max_y)
    IN  /\ w.x <= term_x /\ term_x < w.x + w.width
        /\ w.y <= term_y /\ term_y < w.y + w.height

\* the outcome of one widget.handle_touch call: the widget afterwards, the
\* value returned and the arguments of the callbacks it made
Handled(w, consumed, cbs) == [widget |-> w, consumed |-> consumed, cbs |-> cbs]

\* Button.handle_touch with the callback made on every release or tap
Button_handle_touch_always(w, event) ==
    CASE event = "press" -> Handled([w EXCEPT !.pressed = TRUE], TRUE, <<>>)
      [] event \in {"release", "tap"} ->
            Handled([w EXCEPT !.pressed = FALSE], TRUE, <<"callback">>)
      [] OTHER -> Handled(w, FALSE, <<>>)

\* Button.handle_touch (449-459); VideoButton.handle_touch (486-496) and
\* MainMenuButton.handle_touch (588-599) are the same statements
Button_handle_touch(w, event) ==
    CASE event = "press" -> Handled([w EXCEPT !.pressed = TRUE], TRUE, <<>>)
      [] event \in {"release", "tap"} ->
            Handled([w EXCEPT !.pressed = FALSE], TRUE,
                    IF w.pressed THEN <<"callback">> ELSE <<>>)
      [] OTHER -> Handled(w, FALSE, <<>>)

\* ScrollBar.set_position (556-559)
set_position_of(w, position) ==
    LET max_scroll == w.total_items - w.visible_items
        capped == IF position < max_scroll THEN position ELSE max_scroll
    IN  [w EXCEPT !.scroll_position = IF capped > 0 THEN capped ELSE 0]

\* ScrollBar._update_position (540-554): normalized = max(0, min(1,
\* relative_y / height)), scroll_position = int(normalized * max_scroll)
update_position(w, ty) ==
    LET term_y == Trunc(ty * get_terminal_size[2], max_y)
        relative_y == term_y - w.y
        max_scroll == w.total_items - w.visible_items
    IN  [w EXCEPT !.scroll_position =
            IF relative_y <= 0 THEN 0
            ELSE IF relative_y >= w.height THEN max_scroll
            ELSE Trunc(relative_y * max_scroll, w.height)]

\* ScrollBar.handle_touch (530-538)
ScrollBar_handle_touch(w, event, ty) ==
    CASE event \in {"press", "tap"} ->
            LET moved == update_position([w EXCEPT !.dragging = TRUE], ty)
            IN  Handled(moved, TRUE, <<moved.scroll_position>>)
      [] event = "release" -> Handled([w EXCEPT !.dragging = FALSE], TRUE, <<>>)
      [] OTHER -> Handled(w, FALSE, <<>>)

\* Slider._update_value without the max(0, min(1, ...)) around normalized
update_value_unclamped(w, tx) ==
    LET term_x == Trunc(tx * get_terminal_size[1], max_x)
        relative_x == term_x - w.x - 1
        span == w.width - 3
    IN  [w EXCEPT !.value =
            Trunc(w.min_val * span + relative_x * (w.max_val - w.min_val), span)]

\* Slider._update_value (640-651): normalized = max(0, min(1, relative_x /
\* (width - 3))), value = int(min_val + normalized * (max_val - min_val))
update_value(w, tx) ==
    LET term_x == Trunc(tx * get_terminal_size[1], max_x)
        relative_x == term_x - w.x - 1
        span == w.width - 3
    IN  [w EXCEPT !.value =
            IF relative_x <= 0 THEN w.min_val
            ELSE IF relative_x >= span THEN w.max_val
            ELSE Trunc(w.min_val * span + relative_x * (w.max_val - w.min_val),
                       span)]

\* Slider.handle_touch (630-638)
Slider_handle_touch(w, event, tx) ==
    CASE event \in {"press", "tap"} ->
            LET moved == update_value([w EXCEPT !.dragging = TRUE], tx)
            IN  Handled(moved, TRUE, <<moved.value>>)
      [] event = "release" -> Handled([w EXCEPT !.dragging = FALSE], TRUE, <<>>)
      [] OTHER -> Handled(w, FALSE, <<>>)

\* widget.handle_touch(event_type, x, y) of the widget's class
Widget_handle_touch(w, event, tx, ty) ==
    CASE w.kind = "Button" -> Button_handle_touch(w, event)
      [] w.kind = "ScrollBar" -> ScrollBar_handle_touch(w, event, ty)
      [] OTHER -> Slider_handle_touch(w, event, tx)

\* the state of one Screen.handle_touch call: the widgets, the calls made
\* so far and the value returned
Dispatch(ws, tests, handled, cbs, result) ==
    [widgets |-> ws, tests |-> tests, handled |-> handled, cbs |-> cbs,
     result |-> result]

\* the loop of Screen.handle_touch without the return at the first consumer
RECURSIVE Offer_nostop(_, _, _, _, _)
Offer_nostop(i, d, event, tx, ty) ==
    IF i = 0 THEN d
    ELSE
        LET w == d.widgets[i]
            hit == contains_point(w, tx, ty)
            tests == Append(d.tests, [w |-> i, hit |-> hit])
        IN  IF ~hit
            THEN Offer_nostop(i - 1, [d EXCEPT !.tests = tests], event, tx, ty)
            ELSE LET h == Widget_handle_touch(w, event, tx, ty)
                     after == Dispatch([d.widgets EXCEPT ![i] = h.widget], tests,
                                  Append(d.handled, [w |-> i, consumed |-> h.consumed]),
                                  d.cbs \o [k \in 1..Len(h.cbs) |-> <<i, h.cbs[k]>>],
                                  d.result \/ h.consumed)
                 IN  Offer_nostop(i - 1, after, event, tx, ty)

\* the loop of Screen.handle_touch (669-675) from widget i down to the first:
\* for widget in reversed(self.widgets): if widget.contains_point(x, y):
\* if widget.handle_touch(event_type, x, y): return True
RECURSIVE Offer(_, _, _, _, _)
Offer(i, d, event, tx, ty) ==
    IF i = 0 THEN d
    ELSE
        LET w == d.widgets[i]
            hit == contains_point(w, tx, ty)
            tests == Append(d.tests, [w |-> i, hit |-> hit])
        IN  IF ~hit
            THEN Offer(i - 1, [d EXCEPT !.tests = tests], event, tx, ty)
            ELSE LET h == Widget_handle_touch(w, event, tx, ty)
                     after == Dispatch([d.widgets EXCEPT ![i] = h.widget], tests,
                                  Append(d.handled, [w |-> i, consumed |-> h.consumed]),
                                  d.cbs \o [k \in 1..Len(h.cbs) |-> <<i, h.cbs[k]>>],
                                  h.consumed)
                 IN  IF h.consumed THEN after
                     ELSE Offer(i - 1, after, event, tx, ty)

\* what a step that is not a gesture leaves in the record of calls
WidgetLog(op) ==
    /\ w_op' = op
    /\ w_tests' = <<>>
    /\ w_handled' = <<>>
    /\ w_callbacks' = <<>>

\* Screen.handle_touch(event_type, x, y) (669-675)
Screen_handle_touch ==
    \E event \in WidgetGestures, tx \in TouchXs, ty \in TouchYs :
        LET d == Offer(Len(widgets), Dispatch(widgets, <<>>, <<>>, <<>>, FALSE),
                       event, tx, ty)
        IN  /\ widgets' = d.widgets
            /\ w_op' = <<event, tx, ty, d.result>>
            /\ w_tests' = d.tests
            /\ w_handled' = d.handled
            /\ w_callbacks' = d.cbs
            /\ UNCHANGED <<term_size, nonwidget>>

\* the index of the screen's ScrollBar
TheScrollBar == CHOOSE i \in 1..Len(widgets) : widgets[i].kind = "ScrollBar"

\* scrollbar.set_position(position), as the swipe handling of a list screen
\* calls it (954-965)
set_position ==
    \E position \in Positions :
        /\ widgets' = [widgets EXCEPT
                          ![TheScrollBar] = set_position_of(@, position)]
        /\ WidgetLog(<<"set_position", position>>)
        /\ UNCHANGED <<term_size, nonwidget>>

\* a list is reloaded: scrollbar.total_items = len(...) and then
\* scrollbar.set_position(0) (872-873)
set_total_items ==
    \E n \in ItemCounts :
        /\ widgets' = [widgets EXCEPT
                          ![TheScrollBar] =
                              set_position_of([@ EXCEPT !.total_items = n], 0)]
        /\ WidgetLog(<<"total_items", n>>)
        /\ UNCHANGED <<term_size, nonwidget>>

\* the terminal is resized
resize ==
    /\ term_size' \in TermSizes \ {term_size}
    /\ WidgetLog(<<"resize">>)
    /\ UNCHANGED <<widgets, nonwidget>>

WidgetNext ==
    \/ Screen_handle_touch
    \/ set_position
    \/ set_total_items
    \/ resize

\* the screens and terminals the widget claims are checked from
WidgetStart ==
    /\ AppInit /\ has_device = TRUE
    /\ TouchInit
    /\ CanvasInit
    /\ WrapperInit
    /\ \E a \in ScrollBarArgs, b \in SliderArgs, hidden \in 0..1 :
          widgets = Scene(a, b, hidden)
    /\ term_size \in TermSizes
    /\ w_op = <<"none">>
    /\ w_tests = <<>>
    /\ w_handled = <<>>
    /\ w_callbacks = <<>>

WidgetSpec == WidgetStart /\ [][WidgetNext]_vars

(***************************************************************************)
(* Part 5.  The event loops of the wrapper scripts and their teardown:     *)
(* touch_mpv_wrapper4.py 85-161, touch_ffplay_wrapper.py 93-166 and        *)
(* touch_uxplay_wrapper.py 84-153.  One step handles one event of          *)
(* dev.read_loop(); BTN_TOUCH alternates between 1 and 0.                  *)
(***************************************************************************)

Wrappers == {"mpv", "ffplay", "uxplay"}

\* the event values of ABS_X / ABS_MT_POSITION_X the device sends
WrapXs == {100, 125, 200}

\* the event values of ABS_Y / ABS_MT_POSITION_Y the device sends
WrapYs == {100, 200}

\* wait(timeout=3) followed by kill() (ffplay 159-163, uxplay 146-150); the
\* mpv wrapper calls wait() without a timeout (161)
Bounded(w) == w \in {"ffplay", "uxplay"}

\* 'if proc.poll() is not None: break' at the top of the loop body (ffplay
\* 103-105, uxplay 93-95); the mpv wrapper has no such test
Polled == wr \in {"ffplay", "uxplay"} /\ proc = "exited"

\* a variant in which the count is never reset by the passing of time
TapsNow_notimeout == wr_taps

\* consecutive_taps after 'if current_time - last_tap_time > tap_timeout:
\* consecutive_taps = 0' (ffplay 110-111)
TapsNow == IF wr = "ffplay" /\ wr_tap_age > 10 THEN 0 ELSE wr_taps

\* the loop is left for the finally clause
Break(event, why) ==
    /\ wr_pc' = "finally"
    /\ wr_ev' = <<event, why>>

\* the loop goes on to the next event
Continue(event, what) ==
    /\ wr_pc' = "loop"
    /\ wr_ev' = <<event, what>>

\* EV_ABS with a position code (mpv 93-97, ffplay 113-117, uxplay 97-101)
wr_abs ==
    /\ wr_pc = "loop"
    /\ IF Polled
       THEN /\ Break("ABS", "ended")
            /\ UNCHANGED <<wr_last_x, wr_last_y, wr_taps>>
       ELSE /\ \/ \E v \in WrapXs : wr_last_x' = <<v>> /\ UNCHANGED wr_last_y
               \/ \E v \in WrapYs : wr_last_y' = <<v>> /\ UNCHANGED wr_last_x
            /\ wr_taps' = TapsNow
            /\ Continue("ABS", "position")
    /\ wr_sent' = <<>>
    /\ UNCHANGED <<wr, proc, wr_touching, wr_start, wr_start_age, wr_tap_age,
                   wr_vol_fresh, wr_row, nonwrapper>>

\* BTN_TOUCH with event.value == 1 (mpv 100-103, ffplay 120-123, uxplay 104-107)
wr_down ==
    /\ wr_pc = "loop"
    /\ ~wr_touching
    /\ IF Polled
       THEN /\ Break("DOWN", "ended")
            /\ UNCHANGED <<wr_touching, wr_start, wr_start_age, wr_taps>>
       ELSE /\ wr_touching' = TRUE
            /\ wr_start' = <<wr_last_x, wr_last_y>>
            /\ wr_start_age' = 0
            /\ wr_taps' = TapsNow
            /\ Continue("DOWN", "start")
    /\ wr_sent' = <<>>
    /\ UNCHANGED <<wr, proc, wr_last_x, wr_last_y, wr_tap_age, wr_vol_fresh,
                   wr_row, nonwrapper>>

\* the finger-up branch of touch_ffplay_wrapper.py (132-150) for a contact
\* that moved by (dx, dy): dx and dy are absolute values, a missing y counts 0
ffplay_up(dx, dy) ==
    /\ wr_sent' = <<>>
    /\ UNCHANGED wr_vol_fresh
    /\ IF dx < 30 /\ dy < 30 /\ wr_start_age < 3
       THEN /\ wr_taps' = TapsNow + 1
            /\ wr_tap_age' = 0
            /\ wr_row' = IF wr_tap_age > 10 THEN 1 ELSE wr_row + 1
            /\ IF TapsNow + 1 >= 4 THEN Break("UP", "taps")
                                   ELSE Continue("UP", "tap")
       ELSE IF wr_start_age > 20 /\ dx < 20 /\ dy < 20
       THEN /\ Break("UP", "long press")
            /\ wr_taps' = TapsNow
            /\ UNCHANGED <<wr_tap_age, wr_row>>
       ELSE /\ wr_taps' = 0
            /\ wr_row' = 0
            /\ Continue("UP", "other")
            /\ UNCHANGED wr_tap_age

\* a variant with a window of 1.0 s
DoubleTapGap_wide == wr_tap_age <= 10

\* 'current_time - last_tap_time < 0.6' (uxplay 122)
DoubleTapGap == wr_tap_age < 6

\* the finger-up branch of touch_uxplay_wrapper.py (117-137)
uxplay_up(dx, dy) ==
    /\ wr_sent' = <<>>
    /\ UNCHANGED <<wr_vol_fresh, wr_row>>
    /\ IF abs(dx) < 30 /\ abs(dy) < 30 /\ wr_start_age < 3
       THEN IF DoubleTapGap
            THEN /\ wr_taps' = wr_taps + 1
                 /\ IF wr_taps + 1 >= 2
                    THEN Break("UP", "taps") /\ UNCHANGED wr_tap_age
                    ELSE Continue("UP", "tap") /\ wr_tap_age' = 0
            ELSE /\ wr_taps' = 1
                 /\ wr_tap_age' = 0
                 /\ Continue("UP", "tap")
       ELSE IF wr_start_age > 20 /\ abs(dx) < 20 /\ abs(dy) < 20
       THEN /\ Break("UP", "long press")
            /\ UNCHANGED <<wr_taps, wr_tap_age>>
       ELSE /\ wr_taps' = IF wr_tap_age > 10 THEN 0 ELSE wr_taps
            /\ Continue("UP", "other")
            /\ UNCHANGED wr_tap_age

\* mpv_send(cmd) (mpv 37-47): True, or False when socket, connect or send
\* raised; the exception is caught and printed
mpv_send(cmd, ok) == wr_sent' = <<cmd, ok>>

\* a variant that stamps the volume change whatever mpv_send returned
volume_sent_always(ok) == wr_vol_fresh' = TRUE

\* 'if mpv_send([...]): last_volume_time = current_time' (mpv 156-157)
volume_sent(ok) == wr_vol_fresh' = (ok \/ wr_vol_fresh)

\* the finger-up branch of touch_mpv_wrapper4.py (111-157), the display 800
\* wide (19-25)
mpv_up(dx, dy) ==
    /\ UNCHANGED <<wr_taps, wr_tap_age, wr_row>>
    /\ IF abs(dx) < 30 /\ abs(dy) < 30 /\ wr_start_age < 3
       THEN /\ \E ok \in BOOLEAN : mpv_send("cycle pause", ok)
            /\ Continue("UP", "tap")
            /\ UNCHANGED wr_vol_fresh
       ELSE IF wr_start_age > 10 /\ abs(dx) < 20 /\ abs(dy) < 20
       THEN /\ \E ok \in BOOLEAN : mpv_send("quit", ok)
            /\ Break("UP", "long press")
            /\ UNCHANGED wr_vol_fresh
       ELSE IF abs(dx) > abs(dy)
       THEN /\ IF Trunc(dx * 120, 800) # 0
               THEN \E ok \in BOOLEAN : mpv_send("seek", ok)
               ELSE wr_sent' = <<>>
            /\ Continue("UP", "seek")
            /\ UNCHANGED wr_vol_fresh
       ELSE IF wr_vol_fresh \/ abs(dy) <= 20
       THEN /\ wr_sent' = <<>>
            /\ Continue("UP", "other")
            /\ UNCHANGED wr_vol_fresh
       ELSE /\ \E ok \in BOOLEAN :
                  /\ mpv_send("add volume", ok)
                  /\ volume_sent(ok)
            /\ Continue("UP", "volume")

\* BTN_TOUCH with event.value == 0 while touching (mpv 105-112, ffplay
\* 125-133, uxplay 109-118).  Without start_x or last_x the contact is
\* skipped; 'last_y - start_y' with either None raises TypeError in the mpv
\* and uxplay wrappers, which leaves the loop through the finally clause.
wr_up ==
    /\ wr_pc = "loop"
    /\ wr_touching
    /\ IF Polled
       THEN /\ Break("UP", "ended")
            /\ wr_sent' = <<>>
            /\ UNCHANGED <<wr_touching, wr_taps, wr_tap_age, wr_vol_fresh, wr_row>>
       ELSE /\ wr_touching' = FALSE
            /\ IF wr_start[1] = Unset \/ wr_last_x = Unset
               THEN /\ Continue("UP", "no position")
                    /\ wr_taps' = TapsNow
                    /\ wr_sent' = <<>>
                    /\ UNCHANGED <<wr_tap_age, wr_vol_fresh, wr_row>>
               ELSE IF wr_start[2] = Unset \/ wr_last_y = Unset
               THEN IF wr = "ffplay"
                    THEN ffplay_up(abs(wr_last_x[1] - wr_start[1][1]), 0)
                    ELSE /\ Break("UP", "TypeError")
                         /\ wr_sent' = <<>>
                         /\ UNCHANGED <<wr_taps, wr_tap_age, wr_vol_fresh, wr_row>>
               ELSE LET dx == wr_last_x[1] - wr_start[1][1]
                        dy == wr_last_y[1] - wr_start[2][1]
                    IN  CASE wr = "ffplay" -> ffplay_up(abs(dx), abs(dy))
                          [] wr = "uxplay" -> uxplay_up(dx, dy)
                          [] OTHER -> mpv_up(dx, dy)
    /\ UNCHANGED <<wr, proc, wr_start, wr_last_x, wr_last_y, wr_start_age,
                   nonwrapper>>

\* 0.1 s passes while the loop waits for the next event
wr_tick ==
    /\ wr_pc = "loop"
    /\ wr_start_age' = Min(wr_start_age + 1, MaxAge)
    /\ wr_tap_age' = Min(wr_tap_age + 1, MaxTapAge)
    /\ wr_vol_fresh' = FALSE
    /\ wr_ev' = <<"tick", "none">>
    /\ wr_sent' = <<>>
    /\ UNCHANGED <<wr, wr_pc, proc, wr_touching, wr_start, wr_last_x,
                   wr_last_y, wr_taps, wr_row, nonwrapper>>

\* SIGINT while the loop runs: 'except KeyboardInterrupt' (ffplay 152, uxplay
\* 139) or no handler (mpv); the finally clause runs in each case
wr_interrupt ==
    /\ wr_pc = "loop"
    /\ Break("SIGINT", "KeyboardInterrupt")
    /\ wr_sent' = <<>>
    /\ UNCHANGED <<wr, proc, wr_touching, wr_start, wr_last_x, wr_last_y,
                   wr_start_age, wr_tap_age, wr_taps, wr_vol_fresh, wr_row,
                   nonwrapper>>

\* the collaborator ends, by itself or after SIGTERM
proc_exit ==
    /\ proc = "running"
    /\ proc' = "exited"
    /\ UNCHANGED <<wr, wr_pc, wr_touching, wr_start, wr_last_x, wr_last_y,
                   wr_start_age, wr_tap_age, wr_taps, wr_vol_fresh, wr_ev,
                   wr_sent, wr_row, nonwrapper>>

\* finally: proc.terminate() (mpv 160, ffplay 157, uxplay 144)
wr_finally ==
    /\ wr_pc = "finally"
    /\ wr_pc' = "wait"
    /\ UNCHANGED <<wr, proc, wr_touching, wr_start, wr_last_x, wr_last_y,
                   wr_start_age, wr_tap_age, wr_taps, wr_vol_fresh, wr_ev,
                   wr_sent, wr_row, nonwrapper>>

\* proc.wait(timeout=3) returns or raises TimeoutExpired (ffplay 159-160,
\* uxplay 146-147); mpv_proc.wait() returns only when mpv has ended (mpv 161)
wr_wait ==
    /\ wr_pc = "wait"
    /\ \/ proc = "exited" /\ wr_pc' = "done"
       \/ proc # "exited" /\ Bounded(wr) /\ wr_pc' = "kill"
    /\ UNCHANGED <<wr, proc, wr_touching, wr_start, wr_last_x, wr_last_y,
                   wr_start_age, wr_tap_age, wr_taps, wr_vol_fresh, wr_ev,
                   wr_sent, wr_row, nonwrapper>>

\* proc.kill(); proc.wait() (ffplay 162-163, uxplay 149-150)
wr_kill ==
    /\ wr_pc = "kill"
    /\ proc' = "exited"
    /\ wr_pc' = "done"
    /\ UNCHANGED <<wr, wr_touching, wr_start, wr_last_x, wr_last_y,
                   wr_start_age, wr_tap_age, wr_taps, wr_vol_fresh, wr_ev,
                   wr_sent, wr_row, nonwrapper>>

WrapperNext ==
    \/ wr_abs \/ wr_down \/ wr_up \/ wr_tick \/ wr_interrupt
    \/ proc_exit \/ wr_finally \/ wr_wait \/ wr_kill

\* each of the three scripts, with a collaborator that ends when told to or
\* one that does not
WrapperStart ==
    /\ AppInit /\ has_device = TRUE
    /\ TouchInit
    /\ CanvasInit
    /\ WidgetInit
    /\ wr \in Wrappers
    /\ proc \in {"running", "hung"}
    /\ wr_pc = "loop"
    /\ wr_touching = FALSE
    /\ wr_start = <<Unset, Unset>>
    /\ wr_last_x = Unset
    /\ wr_last_y = Unset
    /\ wr_start_age = 0
    /\ wr_tap_age = MaxTapAge
    /\ wr_taps = 0
    /\ wr_vol_fresh = FALSE
    /\ wr_ev = <<"none", "none">>
    /\ wr_sent = <<>>
    /\ wr_row = 0

WrapperSpec == WrapperStart /\ [][WrapperNext]_vars

(* ---- claims about the Application ---- *)

\* thread t is about to call enter() for a switch made while a screen was active
EnteringAfterActive(t) ==
    pc[t] = "switch_screen_enter" /\ sw_out[t] # None

\* thread t has just returned from a switch_screen call made while a screen
\* was active
SwitchReturned(t) ==
    /\ pc[t] \in {"mark_dirty", "run_initial_render"}
    /\ hook[t][1] = "enter"
    /\ sw_out[t] # None

\* C1: in every switch_screen(name) made while a screen is active, the last
\* hook the calling thread has run when it calls enter() of the incoming screen
\* is exit() of the outgoing one; when the call returns, current_screen = name;
\* and once current_screen names a screen it names a screen ever after.
C1_SwitchScreen ==
    /\ [](\A t \in Threads :
            /\ EnteringAfterActive(t) => hook[t] = <<"exit", sw_out[t]>>
            /\ SwitchReturned(t) => current_screen = hook[t][2])
    /\ [][current_screen # None => current_screen' \in Screens]_vars

\* C1 witness: the input thread has returned from switch_screen('settings')
\* called on the main menu
C1_Witness ==
    /\ SwitchReturned("touch")
    /\ sw_out["touch"] = "main"
    /\ hook["touch"] = <<"enter", "settings">>
    /\ current_screen = "settings"

\* the input thread is inside Application._handle_touch (1521-1525)
InDispatch == pc["touch"] \notin {"unstarted", "read", "dead"}

\* the main thread is between the decision to render and the end of
\* canvas.render() (1588-1589)
InRender == pc["main"] \in {"loop_draw", "loop_render"}

\* C2: gesture dispatch on the input thread and the draw/render step of the
\* application loop never execute at the same time.
C2_DispatchExcludesRender == ~(InDispatch /\ InRender)

\* C3: while a collaborator launched from the Video Player, AirPlay or Camera
\* screen is running, the handler has returned and the input thread is back in
\* its read loop.
C3_HandlerReturns == collab = "running" => pc["touch"] = "read"

\* C4: whenever the process has ended after run put the terminal into cbreak
\* mode, the saved terminal settings have been restored.
C4_TerminalRestored == pc["main"] = "exited" => term = "orig"

\* C4 witness: the process has ended after an exception raised inside the loop
C4_Witness == pc["main"] = "exited" /\ exc = "Exception" /\ term = "orig"

\* quit() was called for the key 'q' (1532) or by the Exit button's callback
\* (733) and has set Application.running to False; the process has not ended
\* and no KeyboardInterrupt or other exception has come in between
QuitRequested ==
    /\ pc["main"] \notin {"run", "exited"}
    /\ ~running
    /\ exc \in {"none", "SystemExit"}

\* C5: once quit is requested the application can always go on towards its
\* exit by steps of its own threads, without a further touch event.
C5_QuitNeedsNoTouch == QuitRequested => ENABLED ThreadStep

\* the main loop has passed its render test in this iteration and is at the
\* draw, the flush or the two assignments after it (1588-1591)
Rendering == pc["main"] \in {"loop_draw", "loop_render", "loop_clear"}

\* C15: an iteration of the main loop draws and flushes only if
\* min_render_interval has elapsed since last_render_time and screen_dirty
\* is set, so an iteration without either writes nothing; and when the
\* render is over screen_dirty is false and last_render_time is the
\* iteration's time.
C15_RenderThrottle ==
    /\ [](Rendering => since_render >= min_render_interval /\ screen_dirty)
    /\ [][pc["main"] = "loop_clear" /\ pc'["main"] = "loop_keyboard"
          => ~screen_dirty' /\ since_render' = 0]_vars

\* the loop has rendered the settings screen and goes on to the keyboard
C15_Witness ==
    /\ pc["main"] = "loop_keyboard"
    /\ since_render = 0
    /\ ~screen_dirty
    /\ current_screen = "settings"

\* C16: whenever the input thread leaves a dispatch it had begun in
\* Application._handle_touch, whatever the handler did, screen_dirty is true
\* (a step that ends the whole process is not the end of a dispatch).
C16_DispatchMarksDirty ==
    [][(InDispatch /\ ~InDispatch' /\ pc'["main"] = pc["main"])
       => screen_dirty']_vars

(* ---- claims about the gesture classifier (TouchSpec) ---- *)

\* the gestures of the callbacks of the last step, in order
EmittedGestures == [i \in 1..Len(emitted) |-> emitted[i][1]]

\* the last step released a tracking id and classified the contact
Classified == contact # Unset

\* C6: the end of one contact produces exactly one gesture callback, never
\* two: not double_tap together with tap, and not tap or swipe together with
\* release when the device reports a tracking-id release and BTN_TOUCH up.
C6_OneCallbackPerContactUp == up_callbacks <= 1

\* C7: a contact with dx < 30, dy < 30 and duration < 0.3 s gives tap, unless
\* a tap or double_tap ended within the double-tap window before it: then it
\* gives double_tap and the tap counter is 0 afterwards.
C7_TapOrDoubleTap ==
    (/\ Classified
     /\ abs(contact[1].dx) < 30
     /\ abs(contact[1].dy) < 30
     /\ contact[1].dt < 3)
    => IF contact[1].gap < DoubleTapWindow
       THEN EmittedGestures = <<"double_tap">> /\ tap_count = 0
       ELSE EmittedGestures = <<"tap">>

C9_LongPress ==
    (/\ Classified
     /\ contact[1].dt > 20
     /\ abs(contact[1].dx) < 20
     /\ abs(contact[1].dy) < 20)
    => EmittedGestures = <<"long_press">>

\* the contacts C7 calls a tap and C9 calls a long press
IsTapContact ==
    abs(contact[1].dx) < 30 /\ abs(contact[1].dy) < 30 /\ contact[1].dt < 3

IsLongPressContact ==
    contact[1].dt > 20 /\ abs(contact[1].dx) < 20 /\ abs(contact[1].dy) < 20

\* C10: a contact that is neither a tap nor a long press and that moved more
\* than 80 horizontally or 48 vertically gives a swipe, whatever its
\* duration: left or right when |dx| > |dy| (right when dx > 0), otherwise up
\* or down (down when dy > 0).
C10_SwipeWhateverDuration ==
    (/\ Classified
     /\ ~IsTapContact
     /\ ~IsLongPressContact
     /\ (abs(contact[1].dx) > 80 \/ abs(contact[1].dy) > 48))
    => \E i \in 1..Len(emitted) :
          emitted[i][1] =
             IF abs(contact[1].dx) > abs(contact[1].dy)
             THEN (IF contact[1].dx > 0 THEN "swipe_right" ELSE "swipe_left")
             ELSE (IF contact[1].dy > 0 THEN "swipe_down" ELSE "swipe_up")

\* C11: every contact-down transition, signalled by BTN_TOUCH = 1 or by a
\* non-negative tracking id, at once emits one press at the contact position.
C11_PressOnContactDown ==
    (/\ HasPosition
     /\ \/ ev = "TRACKING_ID_DOWN" /\ ~dev_btn
        \/ ev = "BTN_TOUCH_DOWN" /\ ~dev_trk)
    => emitted = <<<<"press", Val(touch_x), Val(touch_y)>>>>

\* C12 as stated: a contact during which no X/Y position event came gets no
\* gesture at all, also when positions of an earlier contact are stored.
C12_NoUpdateNoGesture ==
    (/\ InContact \/ ev \in {"TRACKING_ID_UP", "BTN_TOUCH_UP"}
     /\ ~pos_updates)
    => emitted = <<>>

\* C12 as amended: as long as x or y has never been received, no callback
\* is made for any event and no contact start is recorded.
C12_NoPositionNoGesture ==
    (touch_x = Unset \/ touch_y = Unset)
        => emitted = <<>> /\ up_callbacks = 0 /\ swipe_start = Unset

\* a contact has ended by BTN_TOUCH = 0 with x received and y never received
C12_Witness ==
    /\ ~HasPosition
    /\ touch_x # Unset
    /\ ev = "BTN_TOUCH_UP"
    /\ emitted = <<>>

(* ---- claims about the character grid (CanvasSpec) ---- *)

\* C13: render() writes nothing when dirty is false; when dirty is true it
\* makes exactly one write holding every row of the grid, after which
\* old_buffer equals buffer and dirty is false.
C13_Render ==
    cv_op = "render" =>
       IF cv_was_dirty
       THEN /\ Len(cv_out) = 1
            /\ Len(cv_out[1]) = height
            /\ \A r \in 1..height : cv_out[1][r] = <<r, buffer[r]>>
            /\ old_buffer = buffer
            /\ ~dirty
       ELSE cv_out = <<>>

\* a grid that a box was drawn into has been rendered
C13_Witness ==
    /\ cv_op = "render"
    /\ cv_was_dirty
    /\ cv_draws = 1
    /\ \E r \in 1..height : buffer[r] # BlankRow
    /\ Len(cv_out) = 1
    /\ old_buffer = buffer

\* C14: for every x, y, w, h draw_text and draw_box end without raising,
\* store into no cell through a wrapped (negative) index, so only into cells
\* of the grid at the place asked for, and leave the grid height rows of
\* width cells.
C14_DrawClipped ==
    cv_op \in {"draw_text", "draw_box"} =>
       /\ ~cv_raised
       /\ ~cv_wrapped
       /\ Len(buffer) = height
       /\ \A r \in 1..height : Len(buffer[r]) = width

\* a box that begins left of the grid has left only its right corner in
\* the first column
C14_Witness ==
    /\ cv_op = "draw_box"
    /\ buffer[1][1] = "TR"
    /\ ~cv_raised
    /\ ~cv_wrapped

(* ---- claims about the widgets ---- *)

\* the last step was a gesture handed to Screen.handle_touch
GestureStep == w_op[1] \in WidgetGestures

\* the last step updated the scroll bar's position: set_position, or a press
\* or tap the scroll bar handled through _update_position
ScrollUpdated ==
    \/ w_op[1] = "set_position"
    \/ GestureStep /\ \E k \in 1..Len(w_callbacks) : w_callbacks[k][1] = TheScrollBar

\* C17: after every position update of a ScrollBar (set_position, or a press
\* or tap through _update_position), whatever updates and changes of
\* total_items came before, scroll_position lies within
\* 0 .. max(0, total_items - visible_items).
C17_ScrollInRange ==
    ScrollUpdated =>
        LET sb == widgets[TheScrollBar]
        IN  /\ 0 <= sb.scroll_position
            /\ sb.scroll_position <= Max(0, sb.total_items - sb.visible_items)

\* C18: Screen.handle_touch tests the widgets in reverse draw order, hands the
\* gesture to each widget that contains the point, stops at the first one
\* that consumes it and returns whether one did; no widget below a consumer
\* is tested or receives the gesture.
C18_TopmostFirst ==
    GestureStep =>
        LET n == Len(widgets)
            hits == SelectSeq(w_tests, LAMBDA t : t.hit)
            last == Len(w_handled)
        IN  /\ \A k \in 1..Len(w_tests) : w_tests[k].w = n + 1 - k
            /\ Len(hits) = last
            /\ \A k \in 1..last : w_handled[k].w = hits[k].w
            /\ \A k \in 1..last : w_handled[k].consumed => k = last
            /\ IF last > 0 /\ w_handled[last].consumed
               THEN w_tests[Len(w_tests)].w = w_handled[last].w /\ w_op[4]
               ELSE Len(w_tests) = n /\ ~w_op[4]

\* a press where the three widgets overlap: only the topmost one is asked
C18_Witness ==
    /\ w_op = <<"press", 430, 240, TRUE>>
    /\ term_size = <<80, 24>>
    /\ w_tests = <<[w |-> 3, hit |-> TRUE]>>
    /\ w_handled = <<[w |-> 3, consumed |-> TRUE]>>

\* the terminal cell of sensor point (tx, ty): floor(tx * cols / 800),
\* floor(ty * rows / 480) with the size of the terminal at the call
CellOf(tx, ty) == <<(tx * term_size[1]) \div 800, (ty * term_size[2]) \div 480>>

C20_InvisibleUntouched ==
    GestureStep =>
        /\ \A k \in 1..Len(w_handled) : widgets[w_handled[k].w].visible
        /\ \A k \in 1..Len(w_callbacks) : widgets[w_callbacks[k][1]].visible

\* the number of callbacks widget i made in the step just taken
CallbacksOf(i, cbs) == Len(SelectSeq(cbs, LAMBDA c : c[1] = i))

C23_OverlayWhileCollaborator ==
    [][(/\ pc["main"] = "loop_draw" /\ pc'["main"] = "loop_render"
        /\ collab = "running"
        /\ current_screen \in {"airplay", "camera"})
       => frame' = "overlay"]_vars

\* C24: when exit() of a hand-off screen has returned inside switch_screen,
\* the collaborator that screen launched (htop for the Monitor screen, the
\* wrapper for AirPlay and Camera) is no longer running.
C24_ExitStopsCollaborator ==
    \A t \in Threads :
        (pc[t] = "switch_screen_set" /\ hook[t][1] = "exit") =>
            /\ hook[t][2] = "monitor" => htop_state # "running"
            /\ hook[t][2] \in {"airplay", "camera"} => collab # "running"

\* the collaborator of the current hand-off screen has exited: htop on the
\* Monitor screen, or the wrapper whose subprocess.run call has returned
CollaboratorGone ==
    \/ current_screen = "monitor" /\ htop_process # None /\ htop_state = "exited"
    \/ /\ current_screen \in {"video_player", "airplay", "camera"}
       /\ collab = "none" /\ screen_dirty

\* C25: once the collaborator of a hand-off screen has exited, the next
\* render tick (the loop's test with min_render_interval elapsed) draws the
\* screen again, with no further user action.
C25_RedrawAfterCollaborator ==
    [][(/\ pc["main"] = "loop_check"
        /\ pc'["main"] \in {"loop_draw", "loop_keyboard"}
        /\ since_render' >= min_render_interval
        /\ CollaboratorGone)
       => pc'["main"] = "loop_draw"]_vars

\* C27: when the collaborator cannot be launched (wrapper missing, launch
\* raising) or exits with a failure, play_video / launch_airplay /
\* launch_camera go on to show_error, and leave current_screen and running
\* as they were.
C27_LaunchFailureShown ==
    [][(/\ \/ pc["touch"] = "launch"
           \/ pc["touch"] = "subprocess_run" /\ collab = "failed"
        /\ pc'["touch"] \notin {pc["touch"], "subprocess_run", "dead"})
       => /\ pc'["touch"] = "show_error"
          /\ current_screen' = current_screen
          /\ running' = running]_vars

\* C26: when no touch device was found at startup, the Application does not
\* enter its main loop.
C26_NoDeviceNoLoop ==
    ~has_device =>
        pc["main"] \notin {"loop", "loop_check", "loop_draw", "loop_render",
                            "loop_clear", "loop_keyboard"}

\* C28 as stated: mpv_send does not raise; after a send that failed the event
\* loop of the mpv wrapper goes on with later events, and the volume debounce
\* timestamp is set anew only by a send that succeeded.
C28_FailedSendLoopGoesOn ==
    [][/\ (wr_sent' # <<>> /\ ~wr_sent'[2]) =>
              wr_pc' = "loop" /\ wr_vol_fresh' = wr_vol_fresh
       /\ (wr_vol_fresh' /\ ~wr_vol_fresh) => wr_sent' = <<"add volume", TRUE>>]_vars

\* C28 amended: mpv_send does not raise; after a send that failed the event
\* loop goes on with later events unless the send was the quit command of a
\* long press, after which the loop is left whether or not the send
\* succeeded; the volume debounce timestamp is set anew only by a volume
\* send that succeeded.
C28_FailedSendNotFatal ==
    [][/\ wr_sent' # <<>> =>
              /\ wr_ev'[2] \in {"tap", "seek", "volume", "long press"}
              /\ (wr_pc' = "loop") = (wr_sent'[1] # "quit")
       /\ (wr_sent' # <<>> /\ ~wr_sent'[2]) => wr_vol_fresh' = wr_vol_fresh
       /\ (wr_vol_fresh' /\ ~wr_vol_fresh) => wr_sent' = <<"add volume", TRUE>>]_vars

\* a volume swipe whose send failed: the loop goes on and the swipe is not
\* stamped
C28_Witness ==
    /\ wr = "mpv"
    /\ wr_sent = <<"add volume", FALSE>>
    /\ wr_pc = "loop"
    /\ ~wr_vol_fresh

\* C29: in the teardown of every wrapper the wait for a collaborator that
\* ignores the terminate signal is a bounded one, followed by a hard kill, so
\* that the teardown finishes.
C29_TeardownFinishes ==
    (wr_pc = "wait" /\ proc = "hung") => Bounded(wr)

\* C30: touch_ffplay_wrapper.py leaves its loop by tapping exactly when 4
\* taps in a row have been made (each at most 1.0 s after the one before, no
\* other completed contact in between); the count is 0 once more than 1.0 s
\* has passed since the last tap or another kind of contact has completed,
\* and FFplay has ended when the teardown is done.
C30_FourTapsExit ==
    wr = "ffplay" =>
        /\ wr_ev = <<"UP", "taps">> => wr_row >= 4
        /\ wr_row >= 4 => wr_pc # "loop"
        /\ TapsNow = (IF wr_tap_age > 10 THEN 0 ELSE wr_row)
        /\ wr_ev = <<"UP", "other">> => wr_taps = 0
        /\ wr_pc = "done" => proc = "exited"

\* the fourth tap in a row has ended the loop and FFplay has been shut down
C30_Witness ==
    /\ wr = "ffplay"
    /\ wr_ev = <<"UP", "taps">>
    /\ wr_row = 4
    /\ wr_pc = "done"
    /\ proc = "exited"

\* a contact of the wrapper loop ends in this step and is a tap: both
\* positions known at its start and end, moved less than 30 in x and in y,
\* shorter than 0.3 s
WrTapEnds ==
    /\ wr_pc = "loop" /\ wr_touching /\ ~wr_touching'
    /\ wr_start[1] # Unset /\ wr_start[2] # Unset
    /\ wr_last_x # Unset /\ wr_last_y # Unset
    /\ abs(wr_last_x[1] - wr_start[1][1]) < 30
    /\ abs(wr_last_y[1] - wr_start[2][1]) < 30
    /\ wr_start_age < 3

C32_OnlySwitchScreen ==
    [][current_screen' # current_screen =>
          \E t \in Threads :
             /\ pc[t] = "switch_screen_set"
             /\ pc'[t] = "switch_screen_enter"
             /\ current_screen' = arg[t]]_vars

\* a collaborator launched from the Video Player screen has exited while the
\* main loop polls the keyboard, and the screen is still the Video Player
C32_Witness ==
    /\ current_screen = "video_player"
    /\ pc["touch"] = "subprocess_run"
    /\ collab = "exited"
    /\ pc["main"] = "loop_keyboard"

\* C33: the render loop never clears screen_dirty for a change the input
\* thread made, and marked with screen_dirty, after the draw call of the
\* frame it has just flushed had read the state; so no redraw is lost.
C33_NoLostRedraw ==
    [][(pc["main"] = "loop_clear" /\ pc'["main"] = "loop_keyboard")
          => frame # "stale"]_vars

\* C34: once the release or tap that ends a contact has been dispatched, no
\* button of the screen has pressed = true, wherever the finger was lifted.
C34_NoStuckPressed ==
    w_op[1] \in {"release", "tap"} =>
        \A i \in 1..Len(widgets) :
            widgets[i].kind = "Button" => ~widgets[i].pressed

\* C35: no touch event produced while a collaborator started by play_video,
\* launch_airplay or launch_camera was running is dispatched by the input
\* thread, during the run or after it: every event whose gesture the thread
\* hands to _handle_touch was produced while no collaborator ran.
C35_NoLateDispatch ==
    [][(pc["touch"] = "read" /\ pc'["touch"] = "handle_touch")
          => dev_late < dev_buf]_vars

\* C36: canvas.render() in the application loop never writes a frame to the
\* terminal while current_screen is 'monitor' and htop is running (render
\* writes when the draw call before it has put something on the canvas).
C36_NoFrameOverHtop ==
    [][(pc["main"] = "loop_render" /\ pc'["main"] = "loop_clear" /\ frame # "none")
          => ~(current_screen = "monitor" /\ htop_state = "running")]_vars

\* the steps a wrapper script takes on its own: those of its finally clause.
\* Every step inside the loop handles an event that read_loop() delivered.
WrapperAlone == wr_finally \/ wr_wait \/ wr_kill

\* C37: once the collaborator has ended by itself, the wrapper script can go
\* on towards its end by steps of its own, without a further touch event.
C37_EndsWithoutTouch ==
    (wr_pc = "loop" /\ proc = "exited") => ENABLED WrapperAlone

\* C38: a contact that moved beyond the tap threshold (a swipe) neither
\* gives double_tap nor changes tap_count or last_tap_time.
C38_SwipeNoDoubleTap ==
    (Classified /\ IsSwipe(contact[1].dx, contact[1].dy)) =>
        /\ \A i \in 1..Len(emitted) : EmittedGestures[i] # "double_tap"
        /\ tap_count = contact[1].count
        /\ tap_age = contact[1].gap

\* self.visible_items = 10 of VideoPlayerScreen (805)
ScreenVisibleItems == 10

\* C39: on the Video Player screen, whose ScrollBar is built with
\* total_items 0 and then given len(video_files), every position a press or
\* tap on the scrollbar passes to on_scroll, which on_scroll stores as the
\* screen's scroll_position, is the scrollbar's scroll_position and lies in
\* 0 .. max(0, len(video_files) - 10).
C39_VideoScrollInRange ==
    (GestureStep /\ widgets[TheScrollBar].visible_items = 1) =>
        \A k \in 1..Len(w_callbacks) :
            w_callbacks[k][1] = TheScrollBar =>
                /\ w_callbacks[k][2] = widgets[TheScrollBar].scroll_position
                /\ 0 <= w_callbacks[k][2]
                /\ w_callbacks[k][2] <=
                       Max(0, widgets[TheScrollBar].total_items - ScreenVisibleItems)

\* C40: during shutdown the exit() hook of the active screen is invoked
\* once: quit() on the main thread does not invoke it when the main thread
\* has already invoked it for this screen.
C40_ExitHookOnce ==
    [][(pc["main"] = "quit_exit" /\ pc'["main"] = "stop" /\ current_screen # None)
          => hook["main"] # <<"exit", current_screen>>]_vars

====
